---------------------------- MODULE Spec2Model ----------------------------
(***************************************************************************)
(* CryptoDesk: the signal decision engines (fam_analyze, swing_h1_analyze, *)
(* scalp_analyze), the market scanner (run_full_scan / analyze_symbol),    *)
(* the signal history with its de-duplication, and the backtest replay.    *)
(*                                                                         *)
(* Units.  Percentages (sl_pct, tp1_pct, unrealised %) and ratios (rr,     *)
(* bt_pnl_r, atr_ratio) are integers in hundredths, the two decimals the   *)
(* code rounds them to.  Funding is in hundredths of a percent (0.05% is   *)
(* 5), open-interest change in whole percent, prices in integer ticks.     *)
(* The history's clock counts hours; a backtest candle's time is its       *)
(* position in the fetched table.                                          *)
(***************************************************************************)
EXTENDS Integers, Sequences, FiniteSets, TLC

VARIABLES
    inp,            \* engine: the market situation one evaluation reads
    rec,            \* engine: the record the evaluation returned (None before)
    scan_state,     \* scanner: the process-wide scan_state dictionary
    scan_cache,     \* scanner: data/last_scan.json (None when absent)
    pc,             \* scanner: position of each run_full_scan invocation
    loc,            \* scanner: locals of each run_full_scan invocation
    clock,          \* scanner: datetime.now() as a counter
    history_file,   \* history: data/history.json
    history_0,      \* history: the file's content when the writers started
    hpc,            \* history: position of each history writer
    hloc,           \* history: locals of each history writer
    now,            \* history: time.time() in hours
    bt_in,          \* backtest: the signal and the candles fetched for it
    bt_out,         \* backtest: the dictionary backtest_signal returned
    call,           \* requests: the function or route invoked, with its inputs
    ret,            \* requests: what the invocation returned or raised
    scanner_running,\* scanner loop: the global flag of main.py
    lpc,            \* scanner loop: position of each dashboard_scanner_loop thread
    spc             \* scanner loop: position of each start of the scanner

engVars  == <<inp, rec>>
scanVars == <<scan_state, scan_cache, pc, loc, clock>>
histVars == <<history_file, history_0, hpc, hloc, now>>
btVars   == <<bt_in, bt_out>>
callVars == <<call, ret>>
loopVars == <<scanner_running, lpc, spc>>
vars     == <<inp, rec, scan_state, scan_cache, pc, loc, clock,
              history_file, history_0, hpc, hloc, now, bt_in, bt_out,
              call, ret, scanner_running, lpc, spc>>

\* Python's None for a text field; an optional number is <<>> or <<n>>
None == "None"
NoNum == <<>>
Some(n) == <<n>>

\* no request made
NoCall == [fn |-> None]
NoRet  == [done |-> FALSE]

CallIdle ==
    /\ call = NoCall
    /\ ret = NoRet

\* ---- bounds of the scanner loop ----
MaxLoops  == 3      \* dashboard_scanner_loop threads that can exist at once
MaxStarts == 2      \* POST /api/scanner/start requests in progress at once

Loops    == 1..MaxLoops
Starters == {0} \cup (1..MaxStarts)    \* 0 is auto_start_scanner

\* the module is imported: no flag set, no loop thread, no start in progress
LoopIdle ==
    /\ scanner_running = FALSE
    /\ lpc = [t \in Loops |-> "none"]
    /\ spc = [r \in Starters |-> "idle"]

\* round(a / b, 2)-style rounding of the quotient a / b to an integer, for a >= 0
\* and b > 0 (round half to even, as Python's round).
RoundDiv(a, b) ==
    LET q == a \div b
        r == a % b
    IN  IF 2 * r < b THEN q
        ELSE IF 2 * r > b THEN q + 1
        ELSE IF q % 2 = 0 THEN q ELSE q + 1

(***************************************************************************)
(*                      THE SIGNAL DECISION ENGINES                        *)
(***************************************************************************)

\* ---- bounds of the engine inputs ----
MaxExtra == 4

Variants    == {"SWING_H4", "SWING_H1", "SCALP"}
\* price against the two reference moving averages of a timeframe: 1 above, -1 below
PosPairs    == {<<1, 1>>, <<-1, -1>>, <<1, -1>>}
\* optional supporting conditions that held, beyond the ones the bias implies
Extras      == {e \in 0..MaxExtra : e % 2 = 0}
FundingVals == {NoNum, Some(-6), Some(6)}
OiVals      == {NoNum, Some(-6), Some(-3), Some(4), Some(6)}
AtrRatios   == {45, 100}
\* (d1 trend, h4 trend, 24h change %) of the reference instrument
BtcCases    == {<<"BULL", "BULL", 0>>, <<"BEAR", "BEAR", 0>>,
                <<"BEAR", "BEAR", -4>>,
                <<"NEUTRAL", "BEAR", -4>>, <<"NEUTRAL", "NEUTRAL", 0>>}
\* which branch of the fast-timeframe status test the latest candles take
FastCases(v) == IF v = "SWING_H4" THEN {"CONF", "CTR", "PB", "FORM"}
                ELSE {"CONF", "PB", "FORM"}
\* <<sl_pct, tp1_pct>> of the computed levels, inside each variant's bands
LevelCases(v) ==
    IF v = "SWING_H4" THEN {<<100, 200>>, <<200, 200>>, <<400, 200>>}
    ELSE IF v = "SWING_H1" THEN {<<200, 400>>, <<200, 200>>, <<300, 150>>}
    ELSE {<<80, 160>>, <<80, 80>>, <<150, 90>>}
RsiVals(v) == IF v = "SCALP" THEN {20, 50, 80} ELSE {50}
NoTradeVals(v) == IF v = "SCALP" THEN {FALSE} ELSE BOOLEAN

\* tf1 is the trend timeframe, tf2 the confirmation timeframe; the no-trade
\* zone reaches 0.2% beyond the two averages and is void when they are closer
\* than 0.5%, so it is independent of the position pair.  scalp_analyze
\* derives no bias on its confirmation timeframe (the M15 candles give only
\* optional conditions, the RSI and the levels), so its tf2 is one fixed pair.
EngineInputs ==
    UNION { [variant : {v}, tf1 : PosPairs,
             tf2 : IF v = "SCALP" THEN {<<1, 1>>} ELSE PosPairs,
             no_trade : NoTradeVals(v), extra : Extras,
             funding : FundingVals, oi : OiVals, atr_ratio : AtrRatios,
             btc : BtcCases, fast : FastCases(v), lv : LevelCases(v),
             rsi : RsiVals(v)] : v \in Variants }

\* no record yet
NoRec == [variant |-> None]

\* ---- shared pieces ----

\* fam_analyze's D1 bias: strictly above both / strictly below both
StrictBias(p) ==
    IF p[1] > 0 /\ p[2] > 0 THEN "LONG"
    ELSE IF p[1] < 0 /\ p[2] < 0 THEN "SHORT"
    ELSE "NEUTRAL"

\* the bias from two "above" flags: both, neither, or mixed
AboveBias(p) ==
    LET above_a == p[1] > 0
        above_b == p[2] > 0
    IN  IF above_a /\ above_b THEN "LONG"
        ELSE IF ~above_a /\ ~above_b THEN "SHORT"
        ELSE "NEUTRAL"

ScoreConfidence(score) ==
    IF score >= 5 THEN "HIGH" ELSE IF score >= 3 THEN "MEDIUM" ELSE "LOW"

\* the score adjustment of _interpret_funding / _interp_funding
InterpretFunding(funding, direction) ==
    IF funding = NoNum THEN 0
    ELSE IF direction = "LONG" THEN (IF funding[1] > 5 THEN -1 ELSE 0)
    ELSE IF direction = "SHORT" THEN (IF funding[1] < -5 THEN -1 ELSE 0)
    ELSE 0

\* score_adj of calc_atr_context (SWING_H4, SWING_H1) and of the scalp engine
AtrScoreAdj(variant, atr_ratio) ==
    IF variant = "SCALP"
    THEN (IF atr_ratio < 50 THEN -1 ELSE IF atr_ratio > 200 THEN -1 ELSE 0)
    ELSE (IF atr_ratio < 60 THEN -1 ELSE IF atr_ratio > 180 THEN -1 ELSE 0)

\* a faulty context, to show what C30 rests on: the 24h change is looked at
\* before the two trends
fetch_btc_context_DumpFirst(b) ==
    [d1_trend |-> b[1], h4_trend |-> b[2], chg_24h |-> b[3],
     sentiment |-> IF b[2] = "BEAR" /\ b[3] < -3 THEN "DUMP"
                   ELSE IF b[1] = "BULL" /\ b[2] = "BULL" THEN "RISK_ON"
                   ELSE IF b[1] = "BEAR" /\ b[2] = "BEAR" THEN "RISK_OFF"
                   ELSE IF b[2] = "BULL" /\ b[3] > 3 THEN "PUMP"
                   ELSE "NEUTRAL"]

\* fetch_btc_context: the sentiment from the two trends and the 24h change
fetch_btc_context(b) ==
    LET btc_d1 == b[1]
        btc_h4 == b[2]
        chg    == b[3]
        sentiment ==
            IF btc_d1 = "BULL" /\ btc_h4 = "BULL" THEN "RISK_ON"
            ELSE IF btc_d1 = "BEAR" /\ btc_h4 = "BEAR" THEN "RISK_OFF"
            ELSE IF btc_h4 = "BEAR" /\ chg < -3 THEN "DUMP"
            ELSE IF btc_h4 = "BULL" /\ chg > 3 THEN "PUMP"
            ELSE "NEUTRAL"
    IN  [d1_trend |-> btc_d1, h4_trend |-> btc_h4, chg_24h |-> chg,
         sentiment |-> sentiment]

\* a faulty veto, to show what C19 rests on: only a LONG is ever vetoed
BtcHardBlock_LongOnly(direction, ctx) ==
    direction = "LONG" /\ ctx.sentiment \in {"RISK_OFF", "DUMP"}
                       /\ ctx.d1_trend = "BEAR"

\* PATCH A, the BTC hard block: TRUE when the direction is vetoed
BtcHardBlock(direction, ctx) ==
    \/ direction = "LONG" /\ ctx.sentiment \in {"RISK_OFF", "DUMP"}
                          /\ ctx.d1_trend = "BEAR"
    \/ direction = "SHORT" /\ ctx.sentiment = "RISK_ON" /\ ctx.d1_trend = "BULL"

\* PATCH E, the open-interest hard block
OiHardBlock(direction, oi_change) ==
    /\ oi_change # NoNum
    /\ \/ direction = "LONG" /\ oi_change[1] < -3
       \/ direction = "SHORT" /\ oi_change[1] > 3

\* a faulty block, to show what C28 rests on: the confidence survives a veto
BlockedConfidence_Kept(blocked, confidence) == confidence

\* confidence = "LOW" in the branch of a hard block that fired
BlockedConfidence(blocked, confidence) == IF blocked THEN "LOW" ELSE confidence

\* the confidence after total_adj = funding_adj + atr_adj
AdjustConfidence(confidence, total_adj) ==
    IF total_adj <= -2 /\ confidence # "LOW" THEN "LOW"
    ELSE IF total_adj = -1 /\ confidence = "HIGH" THEN "MEDIUM"
    ELSE confidence

\* which side the levels are computed for: the direction, or for a WAIT the
\* bias of the timeframe named in the code; NONE leaves entry = sl = tp1
LevelSide(direction, bias) ==
    IF direction = "LONG" \/ (direction = "WAIT" /\ bias = "LONG") THEN "LONG"
    ELSE IF direction = "SHORT" \/ (direction = "WAIT" /\ bias = "SHORT")
    THEN "SHORT"
    ELSE "NONE"

\* rr = round(tp1_pct / sl_pct, 2) if sl_pct > 0 else 0
RiskReward(sl_pct, tp1_pct) ==
    IF sl_pct > 0 THEN RoundDiv(tp1_pct * 100, sl_pct) ELSE 0

\* ---- checklist items: "T" (ok True), "F" (ok False), "N" (ok None) ----
CheckRR(rr) ==
    IF rr >= 200 THEN "T" ELSE IF rr >= 150 THEN "T"
    ELSE IF rr >= 100 THEN "N" ELSE "F"

CheckFunding(direction, funding) ==
    IF funding = NoNum THEN <<>>
    ELSE IF direction = "LONG"
    THEN (IF funding[1] < -1 THEN <<"T">> ELSE IF funding[1] > 5 THEN <<"F">>
          ELSE <<"N">>)
    ELSE (IF funding[1] > 1 THEN <<"T">> ELSE IF funding[1] < -5 THEN <<"F">>
          ELSE <<"N">>)

CheckBtc(direction, ctx) ==
    IF ctx.sentiment = "RISK_ON" /\ direction = "LONG" THEN "T"
    ELSE IF ctx.sentiment \in {"RISK_OFF", "DUMP"} /\ direction = "SHORT" THEN "T"
    ELSE IF ctx.sentiment \in {"RISK_OFF", "DUMP"} /\ direction = "LONG" THEN "F"
    ELSE "N"

CheckOi(direction, oi_change) ==
    IF oi_change = NoNum THEN <<>>
    ELSE IF direction = "LONG"
    THEN (IF oi_change[1] > 5 THEN <<"T">> ELSE IF oi_change[1] < -5 THEN <<"F">>
          ELSE <<"N">>)
    ELSE (IF oi_change[1] < -5 THEN <<"T">> ELSE IF oi_change[1] > 5 THEN <<"F">>
          ELSE <<"N">>)

Count(checks, v) == Cardinality({k \in DOMAIN checks : checks[k] = v})

\* a faulty override, to show what C3 rests on: MEDIUM keeps a GO
OverrideByConfidence_KeepGo(verdict, confidence, fail_count) ==
    IF confidence = "LOW" THEN (IF fail_count >= 1 THEN "NO" ELSE "WAIT")
    ELSE verdict

\* lines 259-262 (fam), 382-384 (swing H1), 393-395 (scalp): the verdict a
\* checklist may keep at the given confidence
OverrideByConfidence(verdict, confidence, fail_count) ==
    IF confidence = "LOW" THEN (IF fail_count >= 1 THEN "NO" ELSE "WAIT")
    ELSE IF confidence = "MEDIUM" /\ verdict = "GO" THEN "WAIT"
    ELSE verdict

\* the levels' percentages: both 0 when entry = sl = tp1 = price
LevelPcts(side, lv) == IF side = "NONE" THEN <<0, 0>> ELSE lv

\* ---- fam_analyze (SWING_H4): D1 trend, H4 confirmation, H1 entry ----

get_h1_status(direction, fast) ==
    IF direction \in {"LONG", "SHORT"}
    THEN (IF fast = "CONF" THEN "CONFIRMED"
          ELSE IF fast = "CTR" THEN "COUNTER"
          ELSE IF fast = "PB" THEN "PULLBACK"
          ELSE "FORMING")
    ELSE "NEUTRAL"

build_entry_checklist(direction, h1_status, rr, funding, oi_change, btc_ctx, no_trade, confidence) ==
    LET checks ==
            << IF confidence = "HIGH" THEN "T" ELSE "F",
               IF h1_status = "CONFIRMED" THEN "T"
               ELSE IF h1_status = "PULLBACK" THEN "N"
               ELSE IF h1_status = "COUNTER" THEN "F" ELSE "N",
               IF ~no_trade THEN "T" ELSE "N",
               CheckRR(rr) >>
            \o CheckFunding(direction, funding)
            \o << CheckBtc(direction, btc_ctx) >>
            \o CheckOi(direction, oi_change)
        ok_count   == Count(checks, "T")
        fail_count == Count(checks, "F")
        verdict0 == IF fail_count >= 2 THEN "NO"
                    ELSE IF fail_count = 0 /\ ok_count >= 4 THEN "GO"
                    ELSE "WAIT"
        verdict1 == OverrideByConfidence(verdict0, confidence, fail_count)
        verdict  == IF h1_status \in {"FORMING", "COUNTER"} /\ verdict1 = "GO"
                    THEN "WAIT" ELSE verdict1
    IN  [checks |-> checks, verdict |-> verdict]

\* len(conditions) without the optional ones: a LONG always lists the D1 bias
\* and the two "H4 above" notes, a SHORT only the D1 bias
FamBaseScore(direction) == IF direction = "LONG" THEN 3 ELSE 1

fam_analyze(i) ==
    LET d1_bias   == StrictBias(i.tf1)
        h4_bias   == AboveBias(i.tf2)
        btc_ctx   == fetch_btc_context(i.btc)
        h1_status == get_h1_status(d1_bias, i.fast)
        directional == /\ ~(d1_bias = "NEUTRAL" \/ h4_bias = "NEUTRAL" \/ i.no_trade)
                       /\ d1_bias = h4_bias
        direction0  == IF directional THEN d1_bias ELSE "WAIT"
        score       == IF directional THEN FamBaseScore(d1_bias) + i.extra ELSE 0
        confidence0 == IF directional THEN ScoreConfidence(score) ELSE "LOW"
        total_adj   == InterpretFunding(i.funding, direction0)
                       + AtrScoreAdj("SWING_H4", i.atr_ratio)
        btc_block   == BtcHardBlock(direction0, btc_ctx)
        direction1  == IF btc_block THEN "WAIT" ELSE direction0
        oi_block    == OiHardBlock(direction1, i.oi)
        direction2  == IF oi_block THEN "WAIT" ELSE direction1
        confidence2 == BlockedConfidence(btc_block \/ oi_block, confidence0)
        confidence3 == AdjustConfidence(confidence2, total_adj)
        pcts        == LevelPcts(LevelSide(direction2, h4_bias), i.lv)
        rr          == RiskReward(pcts[1], pcts[2])
        cl          == build_entry_checklist(direction2, h1_status, rr, i.funding,
                                             i.oi, btc_ctx, i.no_trade, confidence3)
        rr_gate     == direction2 \in {"LONG", "SHORT"} /\ rr < 100
        direction   == IF rr_gate THEN "WAIT" ELSE direction2
        confidence  == IF rr_gate THEN "LOW" ELSE confidence3
        verdict4    == IF rr_gate THEN "NO" ELSE cl.verdict
        entry_verdict == IF confidence \in {"LOW", "MEDIUM"} /\ verdict4 = "GO"
                         THEN "WAIT" ELSE verdict4
    IN  [variant |-> "SWING_H4", direction |-> direction,
         confidence |-> confidence, score |-> score,
         sl_pct |-> pcts[1], tp1_pct |-> pcts[2], rr |-> rr,
         no_trade_zone |-> i.no_trade, h1_status |-> h1_status,
         entry_checklist |-> cl.checks, entry_verdict |-> entry_verdict,
         funding |-> i.funding, oi_change |-> i.oi, btc_context |-> btc_ctx]

\* ---- swing_h1_analyze (SWING_H1): H4 trend, H1 confirmation, M15 entry ----

get_m15_status(direction, fast) ==
    IF fast = "CONF" THEN "CONFIRMED"
    ELSE IF fast = "PB" THEN "PULLBACK"
    ELSE "FORMING"

SwingBuildChecklist(direction, m15_status, rr, funding, oi_change, btc_ctx, no_trade, confidence) ==
    LET checks ==
            << IF confidence = "HIGH" THEN "T"
               ELSE IF confidence = "MEDIUM" THEN "N" ELSE "F",
               IF m15_status = "CONFIRMED" THEN "T" ELSE "N",
               IF ~no_trade THEN "T" ELSE "N",
               CheckRR(rr) >>
            \o CheckFunding(direction, funding)
            \o << CheckBtc(direction, btc_ctx) >>
            \o CheckOi(direction, oi_change)
        ok_c   == Count(checks, "T")
        fail_c == Count(checks, "F")
        verdict0 == IF fail_c >= 2 THEN "NO"
                    ELSE IF ok_c >= 4 THEN "GO" ELSE "WAIT"
        verdict1 == OverrideByConfidence(verdict0, confidence, fail_c)
        verdict  == IF m15_status = "FORMING" /\ verdict1 = "GO"
                    THEN "WAIT" ELSE verdict1
    IN  [checks |-> checks, verdict |-> verdict]

\* len(conditions): the two H4 notes the bias implies, the H1-vs-MA34 note
\* when the H1 close is on the bias's side, and the optional ones
SwingScore(h4_bias, tf2, extra) ==
    LET h1_above_ma34 == tf2[1] > 0
        h1_note == IF h4_bias = "LONG" THEN h1_above_ma34 ELSE ~h1_above_ma34
    IN  2 + (IF h1_note THEN 1 ELSE 0) + extra

swing_h1_analyze(i) ==
    LET h4_bias    == AboveBias(i.tf1)
        btc_ctx    == fetch_btc_context(i.btc)
        m15_status == get_m15_status(h4_bias, i.fast)
        directional == ~(h4_bias = "NEUTRAL" \/ i.no_trade)
        direction0  == IF directional THEN h4_bias ELSE "WAIT"
        score       == IF directional THEN SwingScore(h4_bias, i.tf2, i.extra)
                       ELSE 0
        confidence0 == IF directional THEN ScoreConfidence(score) ELSE "LOW"
        total_adj   == InterpretFunding(i.funding, direction0)
                       + AtrScoreAdj("SWING_H1", i.atr_ratio)
        btc_block   == BtcHardBlock(direction0, btc_ctx)
        direction1  == IF btc_block THEN "WAIT" ELSE direction0
        oi_block    == OiHardBlock(direction1, i.oi)
        direction2  == IF oi_block THEN "WAIT" ELSE direction1
        confidence2 == BlockedConfidence(btc_block \/ oi_block, confidence0)
        confidence3 == AdjustConfidence(confidence2, total_adj)
        pcts        == LevelPcts(LevelSide(direction2, h4_bias), i.lv)
        rr          == RiskReward(pcts[1], pcts[2])
        rr_gate     == direction2 \in {"LONG", "SHORT"} /\ rr < 100
        direction   == IF rr_gate THEN "WAIT" ELSE direction2
        confidence  == IF rr_gate THEN "LOW" ELSE confidence3
        cl          == SwingBuildChecklist(direction, m15_status, rr, i.funding,
                                           i.oi, btc_ctx, i.no_trade, confidence)
        verdict4    == IF confidence = "LOW" /\ cl.verdict = "GO"
                       THEN "WAIT" ELSE cl.verdict
        entry_verdict == IF direction = "WAIT"
                         THEN (IF rr < 100 THEN "NO" ELSE "WAIT")
                         ELSE verdict4
    IN  [variant |-> "SWING_H1", direction |-> direction,
         confidence |-> confidence, score |-> score,
         sl_pct |-> pcts[1], tp1_pct |-> pcts[2], rr |-> rr,
         no_trade_zone |-> i.no_trade, h1_status |-> m15_status,
         entry_checklist |-> cl.checks, entry_verdict |-> entry_verdict,
         funding |-> i.funding, oi_change |-> i.oi, btc_context |-> btc_ctx]

\* ---- scalp_analyze (SCALP): H1 trend (EMA9/21), M15 confirmation, M5 entry ----

get_m5_status(direction, fast, rsi_m15) ==
    LET rsi_ob == rsi_m15 > 75
        rsi_os == rsi_m15 < 25
        plain  == IF fast = "CONF" THEN "CONFIRMED"
                  ELSE IF fast = "PB" THEN "PULLBACK" ELSE "FORMING"
    IN  IF direction = "LONG"
        THEN (IF rsi_ob THEN "OVERBOUGHT" ELSE plain)
        ELSE (IF rsi_os THEN "OVERSOLD" ELSE plain)

ScalpBuildChecklist(direction, m5_status, rr, rsi_m15, funding, oi_change, btc_ctx, confidence) ==
    LET checks ==
            << IF confidence = "HIGH" THEN "T"
               ELSE IF confidence = "MEDIUM" THEN "N" ELSE "F",
               IF m5_status = "CONFIRMED" THEN "T"
               ELSE IF m5_status \in {"OVERBOUGHT", "OVERSOLD"} THEN "F"
               ELSE "N",
               IF direction = "LONG"
               THEN (IF rsi_m15 > 70 THEN "F"
                     ELSE IF rsi_m15 >= 40 THEN "T" ELSE "N")
               ELSE (IF rsi_m15 < 30 THEN "F"
                     ELSE IF rsi_m15 <= 60 THEN "T" ELSE "N"),
               CheckRR(rr) >>
            \o CheckFunding(direction, funding)
            \o << CheckBtc(direction, btc_ctx) >>
        ok_c   == Count(checks, "T")
        fail_c == Count(checks, "F")
        verdict0 == IF fail_c >= 2 THEN "NO"
                    ELSE IF ok_c >= 4 THEN "GO" ELSE "WAIT"
        verdict1 == OverrideByConfidence(verdict0, confidence, fail_c)
        verdict  == IF m5_status \in {"FORMING", "OVERBOUGHT", "OVERSOLD"}
                       /\ verdict1 = "GO"
                    THEN "WAIT" ELSE verdict1
    IN  [checks |-> checks, verdict |-> verdict]

\* len(conditions): the H1 EMA note the bias implies, the RSI note when the
\* M15 RSI is in the direction's safe band, and the optional ones
ScalpScore(h1_bias, rsi_m15, extra) ==
    LET rsi_ok_long  == 40 <= rsi_m15 /\ rsi_m15 <= 70
        rsi_ok_short == 30 <= rsi_m15 /\ rsi_m15 <= 60
        rsi_note == IF h1_bias = "LONG" THEN rsi_ok_long ELSE rsi_ok_short
    IN  1 + (IF rsi_note THEN 1 ELSE 0) + extra

scalp_analyze(i) ==
    LET h1_bias   == AboveBias(i.tf1)
        btc_ctx   == fetch_btc_context(i.btc)
        m5_status == get_m5_status(h1_bias, i.fast, i.rsi)
        directional == h1_bias # "NEUTRAL"
        direction0  == IF directional THEN h1_bias ELSE "WAIT"
        score       == IF directional THEN ScalpScore(h1_bias, i.rsi, i.extra)
                       ELSE 0
        confidence0 == IF directional THEN ScoreConfidence(score) ELSE "LOW"
        total_adj   == InterpretFunding(i.funding, direction0)
                       + AtrScoreAdj("SCALP", i.atr_ratio)
        btc_block   == BtcHardBlock(direction0, btc_ctx)
        direction1  == IF btc_block THEN "WAIT" ELSE direction0
        oi_block    == OiHardBlock(direction1, i.oi)
        direction2  == IF oi_block THEN "WAIT" ELSE direction1
        confidence2 == BlockedConfidence(btc_block \/ oi_block, confidence0)
        confidence3 == AdjustConfidence(confidence2, total_adj)
        pcts        == LevelPcts(LevelSide(direction2, h1_bias), i.lv)
        rr          == RiskReward(pcts[1], pcts[2])
        rr_gate     == direction2 \in {"LONG", "SHORT"} /\ rr < 100
        direction   == IF rr_gate THEN "WAIT" ELSE direction2
        confidence  == IF rr_gate THEN "LOW" ELSE confidence3
        cl          == ScalpBuildChecklist(direction, m5_status, rr, i.rsi,
                                           i.funding, i.oi, btc_ctx, confidence)
        entry_verdict == IF direction = "WAIT" THEN "WAIT" ELSE cl.verdict
    IN  [variant |-> "SCALP", direction |-> direction,
         confidence |-> confidence, score |-> score,
         sl_pct |-> pcts[1], tp1_pct |-> pcts[2], rr |-> rr,
         no_trade_zone |-> FALSE, h1_status |-> m5_status,
         entry_checklist |-> cl.checks, entry_verdict |-> entry_verdict,
         funding |-> i.funding, oi_change |-> i.oi, btc_context |-> btc_ctx]

\* _get_engine: the engine a strategy names
Engine(i) ==
    IF i.variant = "SWING_H1" THEN swing_h1_analyze(i)
    ELSE IF i.variant = "SCALP" THEN scalp_analyze(i)
    ELSE fam_analyze(i)

(***************************************************************************)
(*                          THE MARKET SCANNER                             *)
(***************************************************************************)

\* ---- bounds of the scanner ----
MaxScans   == 2       \* invocations of run_full_scan in one behaviour
MaxSymbols == 2       \* instruments fetch_all_futures_tickers may return

Slots == 1..MaxScans

\* the situation of an instrument as the SWING_H4 engine reads it
ScanBase ==
    [variant |-> "SWING_H4", tf1 |-> <<1, 1>>, tf2 |-> <<1, 1>>,
     no_trade |-> FALSE, extra |-> 4, funding |-> NoNum, oi |-> NoNum,
     atr_ratio |-> 100, btc |-> <<"NEUTRAL", "NEUTRAL", 0>>, fast |-> "CONF",
     lv |-> <<100, 200>>, rsi |-> 50]

ScanInputs ==
    { ScanBase,                                           \* HIGH 7, rr 2.0
      [ScanBase EXCEPT !.lv = <<200, 200>>],              \* HIGH 7, rr 1.0
      [ScanBase EXCEPT !.extra = 2],                      \* HIGH 5, rr 2.0
      [ScanBase EXCEPT !.extra = 0],                      \* MEDIUM 3, rr 2.0
      [ScanBase EXCEPT !.lv = <<400, 200>>] }             \* rr 0.5: WAIT

\* what evaluating one instrument does: the engine returns a record, raises
\* an exception, or raises one whose text holds "429"; after a 429 the engine
\* is called once more, and raises again or returns a record
ScanItems ==
    { [kind |-> "exc"], [kind |-> "429", retry |-> "exc"],
      [kind |-> "429", retry |-> "ok", inp |-> ScanBase] }
    \cup { [kind |-> "ok", inp |-> i] : i \in ScanInputs }

\* faulty filters, to show what C9 rests on: a WAIT record is kept
analyze_symbol_KeepWait(item) ==
    IF item.kind = "ok"
    THEN LET result == Engine(item.inp)
         IN  IF result.rr < 100 /\ result.direction \in {"LONG", "SHORT"}
             THEN NoRec ELSE result
    ELSE NoRec

\* ---- analyze_symbol: the retained record, or NoRec for None ----
analyze_symbol(item) ==
    IF item.kind = "ok"
    THEN LET result == Engine(item.inp)
         IN  IF result.direction \notin {"LONG", "SHORT"} THEN NoRec
             ELSE IF result.rr < 100 THEN NoRec
             ELSE result
    ELSE IF item.kind = "429"
    THEN LET result == IF item.retry = "ok" THEN Engine(item.inp) ELSE NoRec
         IN  NoRec  \* the retry's result is assigned and never used
    ELSE NoRec      \* the except branch: return None

\* ---- the ranking of run_full_scan: results.sort(key = ...) ----
conf_order(r) ==
    IF r.confidence = "HIGH" THEN 0
    ELSE IF r.confidence = "MEDIUM" THEN 1
    ELSE IF r.confidence = "LOW" THEN 2 ELSE 3

\* a faulty key, to show what C10 rests on: the risk:reward is left out
SortKey_NoRR(r) == << conf_order(r), 0 - r.score, 0 >>

SortKey(r) == << conf_order(r), 0 - r.score, 0 - r.rr >>

\* a faulty collection, to show what C5 rests on: a failure empties the list
Collect_ResetOnFailure(results, r) ==
    IF r # NoRec THEN Append(results, r) ELSE <<>>

\* if r: results.append(r)
Collect(results, r) == IF r # NoRec THEN Append(results, r) ELSE results

\* tuple comparison of two keys, as Python compares tuples
KeyLess(a, b) ==
    \/ a[1] < b[1]
    \/ a[1] = b[1] /\ a[2] < b[2]
    \/ a[1] = b[1] /\ a[2] = b[2] /\ a[3] < b[3]

\* r inserted behind every element whose key is not greater (stable)
RECURSIVE InsertSorted(_, _)
InsertSorted(r, sorted) ==
    IF sorted = <<>> THEN <<r>>
    ELSE IF KeyLess(SortKey(r), SortKey(Head(sorted)))
         THEN <<r>> \o sorted
         ELSE <<Head(sorted)>> \o InsertSorted(r, Tail(sorted))

RECURSIVE SortResults(_)
SortResults(results) ==
    IF results = <<>> THEN <<>>
    ELSE InsertSorted(results[Len(results)],
                      SortResults(SubSeq(results, 1, Len(results) - 1)))

\* ---- scan_state, last_scan.json and the locals of an invocation ----
NoCache == [exists |-> FALSE]

\* _persist_scan_state
PersistScanState(state) ==
    [exists |-> TRUE, results |-> state.results,
     finished_at |-> state.finished_at, total |-> state.total,
     strategy |-> state.strategy]

\* the module-level scan_state built from _load_persisted_scan()
InitialScanState(cache) ==
    [running |-> FALSE, progress |-> 0,
     total |-> IF cache.exists THEN cache.total ELSE 0,
     results |-> IF cache.exists THEN cache.results ELSE <<>>,
     started_at |-> NoNum,
     finished_at |-> IF cache.exists THEN cache.finished_at ELSE NoNum,
     error |-> None,
     strategy |-> IF cache.exists THEN cache.strategy ELSE "SWING_H4"]

\* symbols, done and results of an invocation; evals remembers, in completion
\* order, what each evaluation did
NoLocals == [caller |-> None, fetched |-> FALSE, total |-> 0, done |-> 0,
             results |-> <<>>, evals |-> <<>>]

ScanIdle ==
    /\ scan_cache = NoCache
    /\ scan_state = InitialScanState(NoCache)
    /\ pc = [s \in Slots |-> "idle"]
    /\ loc = [s \in Slots |-> NoLocals]
    /\ clock = 0

\* invocations are taken in slot order
NextSlot(s) == pc[s] = "idle" /\ \A t \in Slots : t < s => pc[t] # "idle"

\* market_scan_cycle: the scanner loop calls run_full_scan
AutoCycle(s) ==
    /\ NextSlot(s)
    /\ pc' = [pc EXCEPT ![s] = "begin"]
    /\ loc' = [loc EXCEPT ![s].caller = "auto"]
    /\ UNCHANGED <<scan_state, scan_cache, clock>>
    /\ UNCHANGED <<engVars, histVars, btVars, callVars, loopVars>>

\* market_scan_start: clears the running flag if it is set, then starts a
\* thread on run_full_scan
ManualStart(s) ==
    /\ NextSlot(s)
    /\ scan_state' = IF scan_state.running
                     THEN [scan_state EXCEPT !.running = FALSE]
                     ELSE scan_state
    /\ pc' = [pc EXCEPT ![s] = "begin"]
    /\ loc' = [loc EXCEPT ![s].caller = "manual"]
    /\ UNCHANGED <<scan_cache, clock>>
    /\ UNCHANGED <<engVars, histVars, btVars, callVars, loopVars>>

\* run_full_scan, the section under _state_lock
Begin(s) ==
    /\ pc[s] = "begin"
    /\ IF scan_state.running
       THEN /\ pc' = [pc EXCEPT ![s] = "skipped"]
            /\ loc' = [loc EXCEPT ![s] = NoLocals]
            /\ UNCHANGED <<scan_state, clock>>
       ELSE /\ scan_state' = [scan_state EXCEPT
                                !.running = TRUE, !.progress = 0,
                                !.results = <<>>, !.error = None,
                                !.started_at = Some(clock + 1),
                                !.finished_at = NoNum,
                                !.strategy = "SWING_H4"]
            /\ clock' = clock + 1
            /\ pc' = [pc EXCEPT ![s] = "fetch"]
            /\ loc' = loc
    /\ UNCHANGED scan_cache
    /\ UNCHANGED <<engVars, histVars, btVars, callVars, loopVars>>

\* fetch_all_futures_tickers, scan_state["total"] = len(symbols); a failed
\* fetch lands in the except branch
Fetch(s) ==
    /\ pc[s] = "fetch"
    /\ \E ok \in BOOLEAN, n \in 0..MaxSymbols :
         IF ok
         THEN /\ scan_state' = [scan_state EXCEPT !.total = n]
              /\ loc' = [loc EXCEPT ![s].total = n, ![s].fetched = TRUE]
              /\ pc' = [pc EXCEPT ![s] = "pool"]
         ELSE /\ n = 0
              /\ scan_state' = [scan_state EXCEPT !.error = "fetch failed"]
              /\ loc' = loc
              /\ pc' = [pc EXCEPT ![s] = "finally"]
    /\ UNCHANGED <<scan_cache, clock>>
    /\ UNCHANGED <<engVars, histVars, btVars, callVars, loopVars>>

\* one turn of the as_completed loop: some instrument's future completes
Complete(s) ==
    /\ pc[s] = "pool"
    /\ loc[s].done < loc[s].total
    /\ \E item \in ScanItems :
         LET r    == analyze_symbol(item)
             done == loc[s].done + 1
         IN  /\ scan_state' = [scan_state EXCEPT !.progress = done]
             /\ loc' = [loc EXCEPT
                          ![s].done = done,
                          ![s].evals = Append(@, item),
                          ![s].results = Collect(@, r)]
    /\ UNCHANGED <<scan_cache, pc, clock>>
    /\ UNCHANGED <<engVars, histVars, btVars, callVars, loopVars>>

\* after the loop: sort, publish, stamp, persist
Finish(s) ==
    /\ pc[s] = "pool"
    /\ loc[s].done = loc[s].total
    /\ LET results == SortResults(loc[s].results)
           state   == [scan_state EXCEPT !.results = results,
                                         !.finished_at = Some(clock + 1)]
       IN  /\ scan_state' = state
           /\ scan_cache' = PersistScanState(state)
           /\ loc' = [loc EXCEPT ![s].results = results]
    /\ clock' = clock + 1
    /\ pc' = [pc EXCEPT ![s] = "finally"]
    /\ UNCHANGED <<engVars, histVars, btVars, callVars, loopVars>>

\* the finally clause; the invocation returns and its locals are gone
Finally(s) ==
    /\ pc[s] = "finally"
    /\ scan_state' = [scan_state EXCEPT !.running = FALSE]
    /\ pc' = [pc EXCEPT ![s] = "done"]
    /\ loc' = [loc EXCEPT ![s] = NoLocals]
    /\ UNCHANGED <<engVars, histVars, btVars, callVars, loopVars>>
    /\ UNCHANGED <<scan_cache, clock>>

\* the process is restarted: every thread is gone and the module-level
\* scan_state is built again from data/last_scan.json
Restart ==
    /\ \E s \in Slots : pc[s] # "idle"
    /\ scan_state' = InitialScanState(scan_cache)
    /\ pc' = [s \in Slots |-> IF pc[s] = "idle" THEN "idle" ELSE "done"]
    /\ loc' = [s \in Slots |-> NoLocals]
    /\ UNCHANGED <<scan_cache, clock>>
    /\ UNCHANGED <<engVars, histVars, btVars, callVars, loopVars>>

(***************************************************************************)
(*                          THE SIGNAL HISTORY                             *)
(***************************************************************************)

\* ---- constants of the program ----
window_hours == 2       \* _is_duplicate_signal(..., window_hours=2)
DedupScan    == 100     \* for h in history[-100:]
HistoryCap   == 200     \* save_history: h[-200:]

\* ---- bounds of the history model ----
MaxSavers == 2          \* concurrent calls of _save_signal_to_history
MaxNow    == 4          \* the clock stops advancing here

Savers == 1..MaxSavers

HSymbols == {"BTCUSDT", "ETHUSDT"}
HEntries == {1000, 1005, 1050}
\* the signals a scan cycle may hand to _save_signal_to_history
Signals  == [symbol : HSymbols, direction : {"LONG", "SHORT"}, entry : HEntries]

\* h[-n:]
LastN(h, n) == IF Len(h) <= n THEN h ELSE SubSeq(h, Len(h) - n + 1, Len(h))

Abs(x) == IF x < 0 THEN 0 - x ELSE x

\* the body of the loop of _is_duplicate_signal for one stored entry
MatchesEntry(result, h, cutoff) ==
    /\ ~(h.time < cutoff)
    /\ h.symbol = result.symbol /\ h.direction = result.direction
    /\ h.entry > 0
    /\ Abs(result.entry - h.entry) * 100 <= h.entry

_is_duplicate_signal(result, history, t) ==
    LET cutoff == t - window_hours
        recent == LastN(history, DedupScan)
    IN  \E k \in DOMAIN recent : MatchesEntry(result, recent[k], cutoff)

\* the dictionary _save_signal_to_history appends
HistoryEntry(result, t) ==
    [time |-> t, symbol |-> result.symbol, direction |-> result.direction,
     entry |-> result.entry]

\* a faulty trim, to show what C12 rests on: the newest entries are cut
save_history_KeepOldest(h) ==
    IF Len(h) <= HistoryCap THEN h ELSE SubSeq(h, 1, HistoryCap)

\* save_history
save_history(h) == LastN(h, HistoryCap)

\* _save_signal_to_history on an already loaded history, at time t
SaveSignal(result, history, t) ==
    IF _is_duplicate_signal(result, history, t) THEN history
    ELSE save_history(Append(history, HistoryEntry(result, t)))

\* ---- histories the file may hold when the writers start ----
\* an earlier BTCUSDT LONG signal at 1000, saved at hour t0, followed by n
\* signals of other instruments saved in the last hour
Filler(n) == [k \in 1..n |-> [time |-> window_hours, symbol |-> "SOLUSDT",
                              direction |-> "SHORT", entry |-> 500]]
Earlier(t0) == [time |-> t0, symbol |-> "BTCUSDT", direction |-> "LONG",
                entry |-> 1000]
StoredHistories ==
    { <<>> }
    \cup { <<Earlier(t0)>> \o Filler(n) :
             t0 \in 0..window_hours,
             n \in {0, DedupScan - 1, DedupScan, HistoryCap - 1} }

NoWriter == [result |-> [symbol |-> None], history |-> <<>>, wrote_at |-> 0]

HistIdle ==
    /\ history_file = <<>>
    /\ history_0 = <<>>
    /\ hpc = [w \in {0} \cup Savers |-> "idle"]
    /\ hloc = [w \in Savers |-> NoWriter]
    /\ now = window_hours + 1

\* _save_signal_to_history, first half: history = load_history()
LoadHistory(w) ==
    /\ hpc[w] = "idle"
    /\ \A v \in Savers : v < w => hpc[v] # "idle"
    /\ \E result \in Signals :
         hloc' = [hloc EXCEPT ![w] = [result |-> result,
                                      history |-> history_file,
                                      wrote_at |-> 0]]
    /\ hpc' = [hpc EXCEPT ![w] = "loaded"]
    /\ UNCHANGED <<history_file, history_0, now>>
    /\ UNCHANGED <<engVars, scanVars, btVars, callVars, loopVars>>

\* _save_signal_to_history, second half: the duplicate test on the loaded
\* list, the append and save_history
WriteHistory(w) ==
    /\ hpc[w] = "loaded"
    /\ history_file' = SaveSignal(hloc[w].result, hloc[w].history, now)
    /\ hloc' = [hloc EXCEPT ![w].wrote_at = now]
    /\ hpc' = [hpc EXCEPT ![w] = "done"]
    /\ UNCHANGED <<history_0, now>>
    /\ UNCHANGED <<engVars, scanVars, btVars, callVars, loopVars>>

\* clear_history: save_history([]); writer 0 is the request's thread
ClearHistory ==
    /\ hpc[0] = "idle"
    /\ history_file' = save_history(<<>>)
    /\ hpc' = [hpc EXCEPT ![0] = "done"]
    /\ UNCHANGED <<history_0, hloc, now>>
    /\ UNCHANGED <<engVars, scanVars, btVars, callVars, loopVars>>

\* time passes
Tick ==
    /\ now < MaxNow
    /\ now' = now + 1
    /\ UNCHANGED <<history_file, history_0, hpc, hloc>>
    /\ UNCHANGED <<engVars, scanVars, btVars, callVars, loopVars>>

(***************************************************************************)
(*                              THE BACKTEST                               *)
(***************************************************************************)

\* ---- bound of the backtest inputs ----
MaxCandles == 3         \* candles fetch_klines returns

\* round(a / b * 100, 2) in hundredths, for b > 0 and either sign of a
SignedRoundDiv(a, b) == IF a < 0 THEN 0 - RoundDiv(0 - a, b) ELSE RoundDiv(a, b)

\* stored signals: a LONG and a SHORT at 2% / 4%, and a LONG at 3% / 2%
BtSignals ==
    { [direction |-> "LONG",  entry |-> 1000, sl |-> 980,  tp1 |-> 1040,
       sl_pct |-> 200, tp1_pct |-> 400],
      [direction |-> "SHORT", entry |-> 1000, sl |-> 1020, tp1 |-> 960,
       sl_pct |-> 200, tp1_pct |-> 400],
      [direction |-> "LONG",  entry |-> 1000, sl |-> 970,  tp1 |-> 1020,
       sl_pct |-> 300, tp1_pct |-> 200] }

\* <<high, low, close>> of an H1 candle
CandleShapes ==
    { <<1010, 990, 1005>>, <<1040, 990, 1030>>, <<1010, 960, 970>>,
      <<1040, 960, 1000>>, <<1020, 980, 995>> }

\* the table fetch_klines returns, oldest first; ts is the open time
CandleTables ==
    UNION { { [k \in 1..n |-> [ts |-> k, high |-> f[k][1], low |-> f[k][2],
                               close |-> f[k][3]]] :
              f \in [1..n -> CandleShapes] } : n \in 0..MaxCandles }

\* a request: the signal, its time, and what the fetch gives
BtInputs ==
    [signal : BtSignals, valid_time : {TRUE}, sig_ts : 0..MaxCandles,
     fetched : {TRUE}, df : CandleTables]
    \cup [signal : BtSignals, valid_time : {FALSE}, sig_ts : {0},
          fetched : {TRUE}, df : {<<>>}]
    \cup [signal : BtSignals, valid_time : {TRUE}, sig_ts : {0},
          fetched : {FALSE}, df : {<<>>}]

NoOut == [bt_result |-> None]

BtError ==
    [bt_result |-> "ERROR", bt_candles |-> NoNum, bt_pnl_r |-> NoNum,
     bt_unrealized_pct |-> NoNum, bt_exit_price |-> NoNum]

\* the unrealised percentage at last_price
Unrealized(signal, last_price) ==
    IF signal.direction = "LONG"
    THEN SignedRoundDiv((last_price - signal.entry) * 10000, signal.entry)
    ELSE SignedRoundDiv((signal.entry - last_price) * 10000, signal.entry)

BtOpen(signal, last_price, n) ==
    [bt_result |-> "OPEN", bt_candles |-> Some(n), bt_pnl_r |-> NoNum,
     bt_unrealized_pct |-> Some(Unrealized(signal, last_price)),
     bt_exit_price |-> Some(last_price)]

\* a faulty chain, to show what C7 rests on: a candle touching both levels
\* counts as a loss
HitOutcome_StopFirst(hit_sl, hit_tp1) ==
    IF hit_sl THEN "LOSS"
    ELSE IF hit_tp1 THEN "WIN"
    ELSE "CONTINUE"

\* the if / elif chain on the two hits of one candle
HitOutcome(hit_sl, hit_tp1) ==
    IF hit_tp1 /\ hit_sl THEN "WIN"
    ELSE IF hit_tp1 THEN "WIN"
    ELSE IF hit_sl THEN "LOSS"
    ELSE "CONTINUE"

\* the loop over df_after from its i-th row on (i counts from 1)
RECURSIVE WalkCandles(_, _, _)
WalkCandles(signal, df_after, i) ==
    IF i > Len(df_after)
    THEN BtOpen(signal, df_after[Len(df_after)].close, Len(df_after))
    ELSE LET row     == df_after[i]
             hit_sl  == IF signal.direction = "LONG"
                        THEN row.low <= signal.sl ELSE row.high >= signal.sl
             hit_tp1 == IF signal.direction = "LONG"
                        THEN row.high >= signal.tp1 ELSE row.low <= signal.tp1
             result  == HitOutcome(hit_sl, hit_tp1)
         IN  IF result = "CONTINUE" THEN WalkCandles(signal, df_after, i + 1)
             ELSE [bt_result |-> result, bt_candles |-> Some(i),
                   bt_pnl_r |-> IF result = "WIN"
                                THEN Some(RiskReward(signal.sl_pct,
                                                     signal.tp1_pct))
                                ELSE Some(0 - 100),
                   bt_unrealized_pct |-> NoNum,
                   bt_exit_price |-> IF result = "WIN" THEN Some(signal.tp1)
                                     ELSE Some(signal.sl)]

backtest_signal(b) ==
    IF ~b.valid_time THEN BtError
    ELSE IF ~b.fetched THEN BtError
    ELSE LET df_after == SelectSeq(b.df, LAMBDA c : c.ts > b.sig_ts)
         IN  IF Len(df_after) = 0
             THEN (IF Len(b.df) = 0 THEN BtError     \* iloc[-1] of no rows
                   ELSE BtOpen(b.signal, b.df[Len(b.df)].close, 0))
             ELSE WalkCandles(b.signal, df_after, 1)

BtIdle ==
    /\ bt_in = [idle |-> TRUE]
    /\ bt_out = NoOut

RunBacktest ==
    /\ bt_out = NoOut
    /\ bt_out' = backtest_signal(bt_in)
    /\ UNCHANGED bt_in
    /\ UNCHANGED <<engVars, scanVars, histVars, callVars, loopVars>>

\* ---- run_backtest: the replay of the stored history ----
MaxReplay == 2          \* entries of the stored history that is replayed

\* a faulty merge, to show what C13 rests on: only the outcome is returned
Merge_OutcomeOnly(signal, out) == out

\* {**signal, "bt_result": ..., ...}: the later keys win
Merge(signal, out) ==
    [k \in DOMAIN signal \cup DOMAIN out |->
        IF k \in DOMAIN out THEN out[k] ELSE signal[k]]

\* an entry as _save_signal_to_history stores it, saved at hour 1
ReplayEntry(sig, confidence) ==
    [time |-> 1,
     symbol |-> IF sig.direction = "LONG" THEN "BTCUSDT" ELSE "ETHUSDT",
     direction |-> sig.direction, confidence |-> confidence,
     entry |-> sig.entry, sl |-> sig.sl, sl_pct |-> sig.sl_pct,
     tp1 |-> sig.tp1, tp1_pct |-> sig.tp1_pct]

ReplayEntries ==
    {ReplayEntry(sig, c) : sig \in BtSignals, c \in {"HIGH", "MEDIUM"}}

ReplayHistories ==
    UNION {[1..n -> ReplayEntries] : n \in 0..MaxReplay}

\* what fetch_klines(symbol, "1h", 200) gives: it raises, or a table whose
\* second candle runs to 1040, or one whose second candle falls to 960
MarketCases ==
    { [fetched |-> FALSE, df |-> <<>>],
      [fetched |-> TRUE,
       df |-> <<[ts |-> 1, high |-> 1010, low |-> 990, close |-> 1005],
                [ts |-> 2, high |-> 1040, low |-> 990, close |-> 1030]>>],
      [fetched |-> TRUE,
       df |-> <<[ts |-> 1, high |-> 1010, low |-> 990, close |-> 1005],
                [ts |-> 2, high |-> 1010, low |-> 960, close |-> 970]>>] }

ReplayCalls ==
    [fn : {"run_backtest"}, confidence : {"HIGH", "MEDIUM", "ALL"},
     direction : {"LONG", "SHORT", "ALL"},
     market : [{"BTCUSDT", "ETHUSDT"} -> MarketCases]]

\* backtest_signal(sig) with the candles the market gives for sig's symbol
BacktestEntry(sig, market) ==
    Merge(sig, backtest_signal([signal |-> sig, valid_time |-> TRUE,
                                sig_ts |-> sig.time,
                                fetched |-> market[sig.symbol].fetched,
                                df |-> market[sig.symbol].df]))

run_backtest(history, c) ==
    IF history = <<>>
    THEN [done |-> TRUE, results |-> <<>>, error |-> "no history"]
    ELSE LET signals ==
                 SelectSeq(history, LAMBDA h :
                     /\ (c.confidence = "ALL" \/ h.confidence = c.confidence)
                     /\ (c.direction = "ALL" \/ h.direction = c.direction))
         IN  IF signals = <<>>
             THEN [done |-> TRUE, results |-> <<>>, error |-> "no signal"]
             ELSE [done |-> TRUE,
                   results |-> [k \in 1..Len(signals) |->
                                   BacktestEntry(signals[k], c.market)],
                   error |-> None]

\* POST /api/backtest
RunReplay ==
    /\ call.fn = "run_backtest" /\ ret = NoRet
    /\ ret' = run_backtest(history_file, call)
    /\ UNCHANGED call
    /\ UNCHANGED <<engVars, scanVars, histVars, btVars, loopVars>>

\* ---- the readers of the persisted files ----
\* what a file holds: it is absent, holds no text, holds text that is not
\* JSON, or holds what the program wrote
FileKinds == {"missing", "empty", "corrupt", "valid"}

Raised == [raised |-> TRUE, value |-> None]
Returns(v) == [raised |-> FALSE, value |-> v]

\* load_config: every failure of the read is swallowed
load_config(file) ==
    IF file = "valid" THEN Returns("MERGED") ELSE Returns("DEFAULT")

\* load_history: json.loads is not guarded
load_history(file) ==
    IF file = "missing" THEN Returns("EMPTY")
    ELSE IF file = "valid" THEN Returns("STORED")
    ELSE Raised

\* _load_persisted_scan: every failure of the read is swallowed
_load_persisted_scan(file) ==
    IF file = "valid" THEN Returns("STORED") ELSE Returns("EMPTY")

ReadCalls ==
    [fn : {"get_history", "save_signal", "backtest", "startup", "get_config"},
     config : FileKinds, history : FileKinds, snapshot : FileKinds]

\* the outcome of an operation from the reads it made
Outcome(cfg, hist, snap) ==
    [done |-> TRUE, raised |-> cfg.raised \/ hist.raised \/ snap.raised,
     config |-> cfg.value, history |-> hist.value, snapshot |-> snap.value]

Unread == Returns(None)

\* GET /api/history
GetHistory ==
    /\ call.fn = "get_history" /\ ret = NoRet
    /\ ret' = Outcome(Unread, load_history(call.history), Unread)
    /\ UNCHANGED call
    /\ UNCHANGED <<engVars, scanVars, histVars, btVars, loopVars>>

\* _save_signal_to_history, up to history = load_history()
SaveSignalRead ==
    /\ call.fn = "save_signal" /\ ret = NoRet
    /\ ret' = Outcome(Unread, load_history(call.history), Unread)
    /\ UNCHANGED call
    /\ UNCHANGED <<engVars, scanVars, histVars, btVars, loopVars>>

\* run_backtest, up to history = load_history()
BacktestRead ==
    /\ call.fn = "backtest" /\ ret = NoRet
    /\ ret' = Outcome(Unread, load_history(call.history), Unread)
    /\ UNCHANGED call
    /\ UNCHANGED <<engVars, scanVars, histVars, btVars, loopVars>>

\* import of scan_engine and auto_start_scanner
Startup ==
    /\ call.fn = "startup" /\ ret = NoRet
    /\ ret' = Outcome(load_config(call.config), Unread,
                      _load_persisted_scan(call.snapshot))
    /\ UNCHANGED call
    /\ UNCHANGED <<engVars, scanVars, histVars, btVars, loopVars>>

\* GET /api/config
GetConfig ==
    /\ call.fn = "get_config" /\ ret = NoRet
    /\ ret' = Outcome(load_config(call.config), Unread, Unread)
    /\ UNCHANGED call
    /\ UNCHANGED <<engVars, scanVars, histVars, btVars, loopVars>>

\* ---- classify_structure ----
MaxSwings == 4          \* swing highs, and swing lows, handed over
MaxLevel  == 3          \* distinct price levels of the swing points

\* a faulty comparison, to show what C15 rests on: equal values pass
AllRising_OrEqual(vals) ==
    \A i \in 2..Len(vals) : vals[i] >= vals[i - 1]

\* all(vals[i] > vals[i-1] for i in range(1, len(vals)))
AllRising(vals) == \A i \in 2..Len(vals) : vals[i] > vals[i - 1]

\* all(vals[i] < vals[i-1] for i in range(1, len(vals)))
AllFalling(vals) == \A i \in 2..Len(vals) : vals[i] < vals[i - 1]

classify_structure(highs, lows, n) ==
    LET h_vals == LastN(highs, n)
        l_vals == LastN(lows, n)
    IN  IF Len(h_vals) < 2 \/ Len(l_vals) < 2 THEN "SIDEWAYS"
        ELSE LET hh == AllRising(h_vals)
                 hl == AllRising(l_vals)
                 lh == AllFalling(h_vals)
                 ll == AllFalling(l_vals)
             IN  IF hh /\ hl THEN "UPTREND"
                 ELSE IF lh /\ ll THEN "DOWNTREND"
                 ELSE "SIDEWAYS"

SwingLists == UNION {[1..k -> 1..MaxLevel] : k \in 0..MaxSwings}

StructureCalls ==
    [fn : {"classify_structure"}, highs : SwingLists, lows : SwingLists,
     n : {2, 3}]

Classify ==
    /\ call.fn = "classify_structure" /\ ret = NoRet
    /\ ret' = [done |-> TRUE,
               value |-> classify_structure(call.highs, call.lows, call.n)]
    /\ UNCHANGED call
    /\ UNCHANGED <<engVars, scanVars, histVars, btVars, loopVars>>

(***************************************************************************)
(*                          THE SCANNER LOOP                               *)
(***************************************************************************)

\* start_dashboard_scanner (r > 0) and auto_start_scanner (r = 0): the test of
\* the flag, the assignment and the start of the thread are three steps, and
\* no lock is held across them
start_dashboard_scanner(r) ==
    /\ \/ /\ spc[r] = "idle"
          /\ IF ~scanner_running
             THEN spc' = [spc EXCEPT ![r] = "set"]
             ELSE r = 0 /\ spc' = [spc EXCEPT ![r] = "done"]
          /\ UNCHANGED <<scanner_running, lpc>>
       \/ /\ spc[r] = "set"
          /\ scanner_running' = TRUE
          /\ spc' = [spc EXCEPT ![r] = "spawn"]
          /\ UNCHANGED lpc
       \/ /\ spc[r] = "spawn"
          /\ \E t \in Loops :
                /\ lpc[t] = "none"
                /\ \A u \in Loops : u < t => lpc[u] # "none"
                /\ lpc' = [lpc EXCEPT ![t] = "while"]
          /\ spc' = [spc EXCEPT ![r] = IF r = 0 THEN "done" ELSE "idle"]
          /\ UNCHANGED scanner_running
    /\ UNCHANGED <<engVars, scanVars, histVars, btVars, callVars>>

\* stop_dashboard_scanner: clears the flag and returns
stop_dashboard_scanner ==
    /\ scanner_running
    /\ scanner_running' = FALSE
    /\ UNCHANGED <<lpc, spc>>
    /\ UNCHANGED <<engVars, scanVars, histVars, btVars, callVars>>

\* one thread of dashboard_scanner_loop: the outer test of the flag, the scan
\* cycle, and the wait that ends when the interval is over or the flag is clear
dashboard_scanner_loop(t) ==
    /\ \/ /\ lpc[t] = "while"
          /\ lpc' = [lpc EXCEPT ![t] = IF scanner_running THEN "cycle" ELSE "none"]
       \/ /\ lpc[t] = "cycle"
          /\ lpc' = [lpc EXCEPT ![t] = "sleep"]
       \/ /\ lpc[t] = "sleep"
          /\ lpc' = [lpc EXCEPT ![t] = "while"]
    /\ UNCHANGED <<scanner_running, spc>>
    /\ UNCHANGED <<engVars, scanVars, histVars, btVars, callVars>>

(***************************************************************************)
(*                          THE CANDLE FETCH                               *)
(***************************************************************************)

Attempts == 3           \* for attempt in range(3)

\* what one requests.get can do: answer with a status, or raise (no answer
\* within the timeout)
Responses == {"200", "429", "404", "500", "timeout"}

\* a faulty test, to show what C22 rests on: every error status is retried
IsRateLimit_AnyError(r) == r \in {"429", "404", "500"}

\* r.status_code == 429
IsRateLimit(r) == r = "429"

\* 2 ** attempt
RECURSIVE Pow2(_)
Pow2(k) == IF k = 0 THEN 1 ELSE 2 * Pow2(k - 1)

\* fetch_klines from its attempt-th pass through the loop on, given what each
\* request of the call would be answered with and the waits made so far
RECURSIVE fetch_klines(_, _, _)
fetch_klines(resps, attempt, waits) ==
    IF attempt = Attempts
    THEN \* the loop's else clause: raise_for_status on the last response
         [requests |-> attempt, waits |-> waits,
          raised |-> resps[attempt] # "200"]
    ELSE LET r == resps[attempt + 1]
         IN  IF r = "timeout"
             THEN [requests |-> attempt + 1, waits |-> waits, raised |-> TRUE]
             ELSE IF IsRateLimit(r)
             THEN fetch_klines(resps, attempt + 1, Append(waits, Pow2(attempt)))
             ELSE [requests |-> attempt + 1, waits |-> waits,
                   raised |-> r # "200"]

KlineCalls == {[fn |-> "fetch_klines", resps |-> q] : q \in [1..Attempts -> Responses]}

FetchKlines ==
    /\ call.fn = "fetch_klines"
    /\ ret = NoRet
    /\ ret' = [done |-> TRUE, out |-> fetch_klines(call.resps, 0, <<>>)]
    /\ UNCHANGED call
    /\ UNCHANGED <<engVars, scanVars, histVars, btVars, loopVars>>

(***************************************************************************)
(*                          THE PRICE LEVELS                               *)
(***************************************************************************)

\* Prices are integers in units of 0.00001; fractions of the entry are per
\* mille, and every entry handed in is a multiple of 1000 units, so that a
\* three-decimal factor times the entry is exact.

\* smart_round: 2 decimals from 100 up, 3 decimals from 1 up, 5 or more below
smart_round(val) ==
    IF val = 0 THEN 0
    ELSE LET step == IF val >= 10000000 THEN 1000
                     ELSE IF val >= 100000 THEN 100
                     ELSE 1
         IN  RoundDiv(val, step) * step

\* the three timeframes an engine fetches, slowest first
Timeframes(v) ==
    IF v = "SWING_H4" THEN <<"1d", "4h", "1h">>
    ELSE IF v = "SWING_H1" THEN <<"4h", "1h", "15m">>
    ELSE <<"1h", "15m", "5m">>

\* price = float(df["close"].iloc[-1]): the timeframe whose latest close it is
PriceFrame(v) == IF v = "SCALP" THEN "5m" ELSE "1h"

\* the latest close of timeframe tf among the closes fetched by variant v
LastClose(v, closes, tf) == closes[CHOOSE k \in 1..3 : Timeframes(v)[k] = tf]

\* the constants of the level code of a variant, per mille of the entry (the
\* ATR multiple in tenths): stop band, target-1 window, fallback ATR multiple
\* and floor, target-2 margin over target 1, caps of the two extensions, and
\* the number of moving averages tried as target 1
LevelParams(v) ==
    IF v = "SWING_H4"
    THEN [sl |-> <<10, 40>>, tp1 |-> <<20, 150>>, atr10 |-> 30, floor |-> 20,
          margin |-> 5, cap127 |-> 400, cap162 |-> 500, mas |-> 3]
    ELSE IF v = "SWING_H1"
    THEN [sl |-> <<20, 30>>, tp1 |-> <<15, 100>>, atr10 |-> 25, floor |-> 20,
          margin |-> 5, cap127 |-> 300, cap162 |-> 400, mas |-> 2]
    ELSE [sl |-> <<8, 15>>, tp1 |-> <<8, 60>>, atr10 |-> 20, floor |-> 0,
          margin |-> 3, cap127 |-> 200, cap162 |-> 250, mas |-> 2]

\* a faulty factor, to show what C29 rests on: always above the entry
Beyond_Above(side, entry, pm) == (entry \div 1000) * (1000 + pm)

\* entry * (1 + pm/1000) for LONG, entry * (1 - pm/1000) for SHORT
Beyond(side, entry, pm) ==
    IF side = "LONG" THEN (entry \div 1000) * (1000 + pm)
    ELSE (entry \div 1000) * (1000 - pm)

\* sl_price: the structure level clamped into the band, then rounded
StopPrice(v, side, entry, sl_struct) ==
    LET near == LevelParams(v).sl[1]
        far  == LevelParams(v).sl[2]
    IN  IF side = "LONG"
        THEN LET lo == Beyond("SHORT", entry, far)
                 hi == Beyond("SHORT", entry, near)
                 inner == IF sl_struct > lo THEN sl_struct ELSE lo
             IN  smart_round(IF hi < inner THEN hi ELSE inner)
        ELSE LET lo == Beyond("LONG", entry, near)
                 hi == Beyond("LONG", entry, far)
                 inner == IF sl_struct < hi THEN sl_struct ELSE hi
             IN  smart_round(IF lo > inner THEN lo ELSE inner)

\* round(abs(level - entry) / entry * 100, 2) if entry != level else 0, in
\* hundredths of a percent
LevelPct(entry, level) ==
    IF entry = level THEN 0 ELSE RoundDiv(Abs(level - entry) * 10000, entry)

\* _pick_tp1_long / _pick_tp1_short (_tp1_long / _tp1_short): the nearest
\* swing point inside the window, else the first moving average inside it,
\* else the ATR fallback
PickTp1(v, side, entry, swings, mas, atr) ==
    LET q  == LevelParams(v)
        mn == IF side = "LONG" THEN Beyond(side, entry, q.tp1[1])
              ELSE Beyond(side, entry, q.tp1[2])
        mx == IF side = "LONG" THEN Beyond(side, entry, q.tp1[2])
              ELSE Beyond(side, entry, q.tp1[1])
        Inside(x) == mn < x /\ x < mx
        cands == {h \in swings : Inside(h)}
        ok    == {k \in 1..q.mas : Inside(mas[k])}
        step  == (atr * q.atr10) \div 10
        raw   == IF side = "LONG" THEN entry + step ELSE entry - step
        least == Beyond(side, entry, q.floor)
    IN  IF cands # {}
        THEN smart_round(IF side = "LONG"
                         THEN CHOOSE h \in cands : \A g \in cands : h <= g
                         ELSE CHOOSE h \in cands : \A g \in cands : h >= g)
        ELSE IF ok # {}
        THEN smart_round(mas[CHOOSE k \in ok : \A j \in ok : k <= j])
        ELSE IF q.floor = 0 THEN smart_round(raw)
        ELSE IF side = "LONG"
        THEN smart_round(IF least > raw THEN least ELSE raw)
        ELSE smart_round(IF least < raw THEN least ELSE raw)

\* fib_extension's level base + rng * ratio (ratio per mille), rounded
FibExt(side, base, rng, ratio) ==
    IF side = "LONG" THEN base + RoundDiv(rng * ratio, 1000)
    ELSE base - RoundDiv(rng * ratio, 1000)

\* _pick_tp2_long / _pick_tp2_short (_tp2_long / _tp2_short, _tp2): the 1.272
\* or the 1.618 extension when beyond target 1 by the margin and within its
\* cap, else target 1 plus the distance from the entry to target 1
PickTp2(v, side, entry, tp1, rng) ==
    LET q    == LevelParams(v)
        f127 == FibExt(side, entry, rng, 1272)
        f162 == FibExt(side, entry, rng, 1618)
        Fits(f, cap) ==
            IF side = "LONG"
            THEN f * 1000 > tp1 * (1000 + q.margin) /\ f < Beyond(side, entry, cap)
            ELSE 0 < f /\ f * 1000 < tp1 * (1000 - q.margin)
                       /\ f > Beyond(side, entry, cap)
    IN  IF Fits(f127, q.cap127) THEN smart_round(f127)
        ELSE IF Fits(f162, q.cap162) THEN smart_round(f162)
        ELSE smart_round(tp1 + (tp1 - entry))

\* the level block of an engine: entry, stop, targets, percentages, rr and the
\* risk:reward gate on the direction
Levels(c) ==
    LET price == LastClose(c.variant, c.closes, PriceFrame(c.variant))
        side  == LevelSide(c.direction, c.bias)
        entry == price
        sl_price == IF side = "NONE" THEN price
                    ELSE StopPrice(c.variant, side, entry, c.sl_struct)
        tp1   == IF side = "NONE" THEN price
                 ELSE PickTp1(c.variant, side, entry, c.swings, c.mas, c.atr)
        tp2_0 == IF side = "NONE" THEN price
                 ELSE PickTp2(c.variant, side, entry, tp1, c.rng)
        tp2   == IF c.direction = "LONG" /\ tp2_0 <= tp1
                 THEN smart_round(tp1 + (tp1 - entry))
                 ELSE IF c.direction = "SHORT" /\ tp2_0 >= tp1
                 THEN smart_round(tp1 - (entry - tp1))
                 ELSE tp2_0
        sl_pct  == LevelPct(entry, sl_price)
        tp1_pct == LevelPct(entry, tp1)
        rr      == RiskReward(sl_pct, tp1_pct)
    IN  [direction |-> IF c.direction \in {"LONG", "SHORT"} /\ rr < 100
                       THEN "WAIT" ELSE c.direction,
         side |-> side, price |-> smart_round(price), entry |-> smart_round(entry),
         sl |-> sl_price, tp1 |-> tp1, tp2 |-> tp2,
         sl_pct |-> sl_pct, tp1_pct |-> tp1_pct, rr |-> rr]

\* the situations the level block is run on: the direction and the bias, the
\* latest closes of the three timeframes, and, as offsets from the entry per
\* mille, the structure level (towards the stop), the swing points and the
\* moving averages (towards the target), the ATR and the swing range
LevelCalls ==
    { LET entry == LastClose(v, cl, PriceFrame(v))
          to    == IF d[2] = "SHORT" THEN "SHORT" ELSE "LONG"
          away  == IF d[2] = "SHORT" THEN "LONG" ELSE "SHORT"
      IN  [fn |-> "levels", variant |-> v, direction |-> d[1], bias |-> d[2],
           closes |-> cl, sl_struct |-> Beyond(away, entry, so),
           swings |-> {Beyond(to, entry, o) : o \in sw},
           mas |-> [k \in 1..3 |-> Beyond(to, entry, ma[k])],
           atr |-> (entry \div 1000) * at, rng |-> (entry \div 1000) * rg]
      : v \in Variants,
        d \in {<<"LONG", "LONG">>, <<"SHORT", "SHORT">>, <<"WAIT", "LONG">>,
               <<"WAIT", "SHORT">>, <<"WAIT", "NEUTRAL">>},
        cl \in {<<350000, mid, fast>> : mid \in {352000, 353000},
                                        fast \in {352000, 353000, 90000}},
        so \in {60, 25, 12, 5, -5},
        sw \in {{}, {5}, {12}, {30, 50}, {200}},
        ma \in {<<300, -20, 40>>, <<-10, 300, 400>>},
        at \in {0, 2, 10},
        rg \in {0, 30, 250} }

ComputeLevels ==
    /\ call.fn = "levels"
    /\ ret = NoRet
    /\ ret' = [done |-> TRUE, out |-> Levels(call)]
    /\ UNCHANGED call
    /\ UNCHANGED <<engVars, scanVars, histVars, btVars, loopVars>>

(***************************************************************************)
(*                          THE SPECIFICATIONS                             *)
(***************************************************************************)

EngIdle ==
    /\ inp = [variant |-> None]
    /\ rec = NoRec

\* one evaluation of one instrument by the engine its strategy names
Analyze ==
    /\ rec = NoRec
    /\ rec' = Engine(inp)
    /\ UNCHANGED inp
    /\ UNCHANGED <<scanVars, histVars, btVars, callVars, loopVars>>

InitEngine ==
    /\ inp \in EngineInputs
    /\ rec = NoRec
    /\ ScanIdle /\ HistIdle /\ BtIdle /\ CallIdle /\ LoopIdle

NextEngine == Analyze

SpecEngine == InitEngine /\ [][NextEngine]_vars

\* the scanner with the scanner loop and manual start requests
Init == EngIdle /\ ScanIdle /\ HistIdle /\ BtIdle /\ CallIdle /\ LoopIdle

Next ==
    \E s \in Slots :
        \/ AutoCycle(s)
        \/ ManualStart(s)
        \/ Begin(s)
        \/ Fetch(s)
        \/ Complete(s)
        \/ Finish(s)
        \/ Finally(s)

Spec == Init /\ [][Next]_vars

\* the scanner when only the scanner loop starts scans
NextAuto ==
    \E s \in Slots :
        \/ AutoCycle(s)
        \/ Begin(s)
        \/ Fetch(s)
        \/ Complete(s)
        \/ Finish(s)
        \/ Finally(s)

SpecAuto == Init /\ [][NextAuto]_vars

\* the same, with every started thread scheduled again and again
SpecAutoFair == SpecAuto /\ WF_vars(NextAuto)

\* the scanner with both entry points and restarts of the process
NextRestart ==
    \/ \E s \in Slots :
        \/ AutoCycle(s)
        \/ ManualStart(s)
        \/ Begin(s)
        \/ Fetch(s)
        \/ Complete(s)
        \/ Finish(s)
        \/ Finally(s)
    \/ Restart

SpecRestart == Init /\ [][NextRestart]_vars

\* the history file and its writers
InitHist ==
    /\ EngIdle /\ ScanIdle /\ BtIdle /\ CallIdle /\ LoopIdle
    /\ history_file \in StoredHistories
    /\ history_0 = history_file
    /\ hpc = [w \in {0} \cup Savers |-> "idle"]
    /\ hloc = [w \in Savers |-> NoWriter]
    /\ now = window_hours + 1

NextHist ==
    \/ \E w \in Savers : LoadHistory(w)
    \/ \E w \in Savers : WriteHistory(w)
    \/ ClearHistory
    \/ Tick

SpecHist == InitHist /\ [][NextHist]_vars

\* one backtest of one stored signal
InitBacktest ==
    /\ EngIdle /\ ScanIdle /\ HistIdle /\ CallIdle /\ LoopIdle
    /\ bt_in \in BtInputs
    /\ bt_out = NoOut

NextBacktest == RunBacktest

SpecBacktest == InitBacktest /\ [][NextBacktest]_vars

\* one replay request on a stored history
InitReplay ==
    /\ EngIdle /\ ScanIdle /\ BtIdle /\ LoopIdle
    /\ history_file \in ReplayHistories
    /\ history_0 = history_file
    /\ hpc = [w \in {0} \cup Savers |-> "idle"]
    /\ hloc = [w \in Savers |-> NoWriter]
    /\ now = window_hours + 1
    /\ call \in ReplayCalls
    /\ ret = NoRet

NextReplay == RunReplay

SpecReplay == InitReplay /\ [][NextReplay]_vars

\* one operation that reads persisted state
InitRead ==
    /\ EngIdle /\ ScanIdle /\ HistIdle /\ BtIdle /\ LoopIdle
    /\ call \in ReadCalls
    /\ ret = NoRet

NextRead ==
    \/ GetHistory
    \/ SaveSignalRead
    \/ BacktestRead
    \/ Startup
    \/ GetConfig

SpecRead == InitRead /\ [][NextRead]_vars

\* one classification of swing points
InitStructure ==
    /\ EngIdle /\ ScanIdle /\ HistIdle /\ BtIdle /\ LoopIdle
    /\ call \in StructureCalls
    /\ ret = NoRet

NextStructure == Classify

SpecStructure == InitStructure /\ [][NextStructure]_vars

\* the scanner loop with its start and stop requests
NextLoop ==
    \/ \E r \in Starters : start_dashboard_scanner(r)
    \/ stop_dashboard_scanner
    \/ \E t \in Loops : dashboard_scanner_loop(t)

SpecLoop == Init /\ [][NextLoop]_vars

\* one call of one of the helper functions
InitCalls ==
    /\ EngIdle /\ ScanIdle /\ HistIdle /\ BtIdle /\ LoopIdle
    /\ call \in KlineCalls \cup LevelCalls
    /\ ret = NoRet

NextCalls ==
    \/ FetchKlines
    \/ ComputeLevels

SpecCalls == InitCalls /\ [][NextCalls]_vars

(***************************************************************************)
(*                        PROPERTIES OF THE ENGINES                        *)
(***************************************************************************)

Returned == rec.variant # None

\* the bias as the specification defines it, on a position pair
SpecBias(p) ==
    IF p[1] > 0 /\ p[2] > 0 THEN "LONG"
    ELSE IF p[1] < 0 /\ p[2] < 0 THEN "SHORT"
    ELSE "NEUTRAL"

C2_NeutralBiasForcesWait ==
    (Returned /\ (SpecBias(inp.tf1) = "NEUTRAL" \/ SpecBias(inp.tf2) = "NEUTRAL"))
        => /\ rec.direction = "WAIT"
           /\ rec.confidence = "LOW"

\* C3: in every engine variant the verdict is GO only together with
\* confidence HIGH, never with LOW or MEDIUM.
C3_GoOnlyWithHigh ==
    (Returned /\ rec.entry_verdict = "GO") => rec.confidence = "HIGH"

\* a MEDIUM record whose checklist alone (four or more items met, none
\* failed) would have said GO, and whose verdict is WAIT
C3_Witness ==
    /\ Returned
    /\ rec.confidence = "MEDIUM"
    /\ Count(rec.entry_checklist, "T") >= 4
    /\ Count(rec.entry_checklist, "F") = 0
    /\ rec.entry_verdict = "WAIT"

\* C16: in every engine variant the verdict agrees with the checklist of
\* the same record: NO whenever two or more items are false, GO only when
\* no item is false and four or more are true.
C16_VerdictMatchesChecklist ==
    Returned =>
        /\ Count(rec.entry_checklist, "F") >= 2 => rec.entry_verdict = "NO"
        /\ rec.entry_verdict = "GO"
              => /\ Count(rec.entry_checklist, "F") = 0
                 /\ Count(rec.entry_checklist, "T") >= 4

\* C17: in every engine variant a fast-timeframe status other than
\* CONFIRMED never comes with the verdict GO.
C17_UnresolvedCapsAtWait ==
    (Returned /\ rec.entry_verdict = "GO") => rec.h1_status = "CONFIRMED"

\* C18: in every engine variant, with an open-interest change of -3% or
\* lower the record is not LONG, with +3% or higher it is not SHORT, and in
\* both cases the record is WAIT with confidence LOW.
C18_OiVeto ==
    (Returned /\ rec.oi_change # NoNum) =>
        /\ rec.oi_change[1] <= -3 => rec.direction # "LONG"
        /\ rec.oi_change[1] >= 3 => rec.direction # "SHORT"

\* C19: in every engine variant, with macro sentiment RISK_OFF or DUMP and a
\* BEAR daily macro trend the record is not LONG, with RISK_ON and a BULL
\* daily trend it is not SHORT; a record that is not of the other direction
\* is then WAIT with confidence LOW, whatever its score.
C19_MacroVeto ==
    Returned =>
        /\ (rec.btc_context.sentiment \in {"RISK_OFF", "DUMP"}
              /\ rec.btc_context.d1_trend = "BEAR")
             => \/ rec.direction = "SHORT"
                \/ rec.direction = "WAIT" /\ rec.confidence = "LOW"
        /\ (rec.btc_context.sentiment = "RISK_ON"
              /\ rec.btc_context.d1_trend = "BULL")
             => \/ rec.direction = "LONG"
                \/ rec.direction = "WAIT" /\ rec.confidence = "LOW"

\* every timeframe says SHORT with a score that would give HIGH, the macro
\* context is RISK_ON on a BULL daily trend: the record is WAIT and LOW
C19_Witness ==
    /\ Returned
    /\ SpecBias(inp.tf1) = "SHORT" /\ SpecBias(inp.tf2) = "SHORT"
    /\ ~inp.no_trade /\ ScoreConfidence(rec.score) = "HIGH"
    /\ rec.btc_context.sentiment = "RISK_ON"
    /\ rec.btc_context.d1_trend = "BULL"
    /\ rec.direction = "WAIT" /\ rec.confidence = "LOW"
    /\ rec.rr >= 100

\* C28: verdict GO comes only with direction LONG or SHORT; a record whose
\* direction is WAIT (neutral or conflicting bias, no-trade zone, hard block,
\* risk:reward gate) never has verdict GO.
C28_GoOnlyDirectional ==
    (Returned /\ rec.entry_verdict = "GO") => rec.direction \in {"LONG", "SHORT"}

\* a signal strong enough for GO (score for HIGH, fast timeframe confirmed,
\* risk:reward 2.0) that a hard block turned into WAIT
C28_Witness ==
    /\ Returned
    /\ rec.direction = "WAIT"
    /\ ScoreConfidence(rec.score) = "HIGH"
    /\ rec.h1_status = "CONFIRMED"
    /\ rec.rr >= 200
    /\ ~rec.no_trade_zone
    /\ rec.entry_verdict # "GO"

\* C30: a context whose sentiment is DUMP has a daily trend other than BEAR
\* (two BEAR trends give RISK_OFF, whatever the 24h change), so the macro
\* block vetoes a LONG only under RISK_OFF.
C30_DumpNeverBlocks ==
    Returned =>
        LET ctx == rec.btc_context
        IN  /\ ctx.sentiment = "DUMP" => ctx.d1_trend # "BEAR"
            /\ (ctx.d1_trend = "BEAR" /\ ctx.h4_trend = "BEAR")
                  => ctx.sentiment = "RISK_OFF"
            /\ BtcHardBlock("LONG", ctx) => ctx.sentiment = "RISK_OFF"

\* a LONG record returned while the macro sentiment is DUMP
C30_Witness ==
    /\ Returned
    /\ rec.direction = "LONG"
    /\ rec.btc_context.sentiment = "DUMP"
    /\ rec.btc_context.chg_24h < -3

\* one confidence tier down
OneTierDown(c) == IF c = "HIGH" THEN "MEDIUM" ELSE "LOW"

\* the risk factors of the evaluated situation, for the returned direction
RiskFactors ==
    (IF InterpretFunding(inp.funding, rec.direction) < 0 THEN 1 ELSE 0)
    + (IF AtrScoreAdj(inp.variant, inp.atr_ratio) < 0 THEN 1 ELSE 0)

\* C23: for a LONG or SHORT record, one risk factor (adverse funding
\* extremity, volatility regime other than NORMAL) puts the confidence one
\* tier below the one the score maps to, two put it at LOW, none leaves it.
C23_OneTierPerFactor ==
    (Returned /\ rec.direction \in {"LONG", "SHORT"}) =>
        LET mapped == ScoreConfidence(rec.score)
        IN  rec.confidence = IF RiskFactors = 0 THEN mapped
                             ELSE IF RiskFactors = 1 THEN OneTierDown(mapped)
                             ELSE "LOW"

(***************************************************************************)
(*                        PROPERTIES OF THE SCANNER                        *)
(***************************************************************************)

\* an invocation that passed the running test and has not left its finally
Executing(s) == pc[s] \in {"fetch", "pool", "finally"}

\* C4: at any time at most one execution of run_full_scan is between its
\* start and its completion, whatever the interleaving of auto-cycle scans
\* and manual start requests.
C4_AtMostOneScan == Cardinality({s \in Slots : Executing(s)}) <= 1

\* the record an evaluation gave, when an engine record came back
Evaluated(item) == Engine(item.inp)

\* the evaluations whose signal is to be retained: no exception, a
\* direction LONG or SHORT, risk:reward at least 1.0
IsRetained(item) ==
    /\ item.kind = "ok"
    /\ Evaluated(item).direction \in {"LONG", "SHORT"}
    /\ Evaluated(item).rr >= 100

Occurrences(seq, x) == Cardinality({k \in DOMAIN seq : seq[k] = x})

\* results holds exactly the retained signals of evals, each as often
ExactlyRetained(results, evals) ==
    /\ \A k \in DOMAIN results :
         Occurrences(results, results[k])
           = Cardinality({j \in DOMAIN evals :
                            IsRetained(evals[j]) /\ Evaluated(evals[j]) = results[k]})
    /\ \A j \in DOMAIN evals :
         IsRetained(evals[j]) => Occurrences(results, Evaluated(evals[j])) >= 1

C20_RetryProcessed ==
    \A s \in Slots :
        (pc[s] = "finally" /\ loc[s].fetched)
          => \A j \in DOMAIN loc[s].evals :
               LET item == loc[s].evals[j]
               IN  (/\ item.kind = "429" /\ item.retry = "ok"
                    /\ Evaluated(item).direction \in {"LONG", "SHORT"}
                    /\ Evaluated(item).rr >= 100)
                     => \E k \in DOMAIN loc[s].results :
                          loc[s].results[k] = Evaluated(item)

\* C9: every element of the results of a scan has direction LONG or SHORT
\* and a risk:reward of at least 1.0.
C9_OnlyDirectionalKept ==
    \A k \in DOMAIN scan_state.results :
        /\ scan_state.results[k].direction \in {"LONG", "SHORT"}
        /\ scan_state.results[k].rr >= 100

\* a scan at its end that evaluated an instrument to WAIT with risk:reward
\* below 1.0 and another to a signal, and published only the signal
C9_Witness ==
    \E s \in Slots :
        /\ pc[s] = "finally" /\ loc[s].fetched
        /\ \E j \in DOMAIN loc[s].evals :
             /\ loc[s].evals[j].kind = "ok"
             /\ Evaluated(loc[s].evals[j]).direction = "WAIT"
             /\ Evaluated(loc[s].evals[j]).rr < 100
        /\ Len(scan_state.results) = 1

\* the tiers in the order of the ranking
Tier(r) == IF r.confidence = "HIGH" THEN 1
           ELSE IF r.confidence = "MEDIUM" THEN 2 ELSE 3

\* C10: for any two results a listed before b, a's tier is not lower than
\* b's; at equal tiers a's score is not lower; at equal tier and score a's
\* risk:reward is not lower.
C10_Ranked ==
    \A a, b \in DOMAIN scan_state.results :
        a < b =>
          LET x == scan_state.results[a]
              y == scan_state.results[b]
          IN  /\ Tier(x) <= Tier(y)
              /\ Tier(x) = Tier(y) => x.score >= y.score
              /\ (Tier(x) = Tier(y) /\ x.score = y.score) => x.rr >= y.rr

\* a scan at its end whose two signals, equal in tier and score, completed
\* with the lower risk:reward first and are published the other way round
C10_Witness ==
    \E s \in Slots :
        /\ pc[s] = "finally" /\ loc[s].fetched
        /\ Len(loc[s].evals) = 2 /\ Len(scan_state.results) = 2
        /\ IsRetained(loc[s].evals[1]) /\ IsRetained(loc[s].evals[2])
        /\ scan_state.results[1] = Evaluated(loc[s].evals[2])
        /\ scan_state.results[2] = Evaluated(loc[s].evals[1])
        /\ Tier(scan_state.results[1]) = Tier(scan_state.results[2])
        /\ scan_state.results[1].score = scan_state.results[2].score
        /\ scan_state.results[1].rr > scan_state.results[2].rr

\* invocation s completes successfully in this step
Completes(s) == pc[s] = "pool" /\ pc'[s] = "finally"

\* C11: a successfully completed scan leaves its own results, finish time,
\* total and strategy in the snapshot, nothing else changes the snapshot,
\* and a restart builds the scan state from the snapshot with running = false
\* and progress = 0.
C11_RestartRestores ==
    [][/\ \A s \in Slots :
            Completes(s) =>
                /\ scan_cache'.exists
                /\ scan_cache'.results = loc'[s].results
                /\ scan_cache'.finished_at = Some(clock')
                /\ scan_cache'.total = loc[s].total
                /\ scan_cache'.strategy = "SWING_H4"
       /\ (\A s \in Slots : ~Completes(s)) => scan_cache' = scan_cache
       /\ (Restart /\ scan_cache.exists) =>
                /\ scan_state'.results = scan_cache.results
                /\ scan_state'.finished_at = scan_cache.finished_at
                /\ scan_state'.total = scan_cache.total
                /\ scan_state'.strategy = scan_cache.strategy
                /\ ~scan_state'.running
                /\ scan_state'.progress = 0]_vars

\* C26: in every reachable scan state 0 <= progress <= total, whatever the
\* interleaving of scheduled and manual scan starts and worker completions.
C26_ProgressWithinTotal ==
    /\ 0 <= scan_state.progress
    /\ scan_state.progress <= scan_state.total

\* the invocation in slot s ends after its fetch of the instruments failed
FailedScanEnds(s) == pc[s] = "finally" /\ ~loc[s].fetched /\ pc'[s] = "done"

\* C27: a scan whose fetch of the instrument universe failed ends with
\* running = false, the error set, finished_at unset and no results, and
\* none of its steps touches the persisted snapshot.
C27_FailedFetchKeepsSnapshot ==
    [][\A s \in Slots :
         /\ (pc[s] \in {"begin", "fetch"} /\ pc'[s] \in {"fetch", "finally"}
              /\ ~loc'[s].fetched)
               => scan_cache' = scan_cache
         /\ FailedScanEnds(s)
               => /\ scan_cache' = scan_cache
                  /\ scan_state'.running = FALSE
                  /\ scan_state'.error # None
                  /\ scan_state'.finished_at = NoNum
                  /\ scan_state'.results = <<>>]_vars

(***************************************************************************)
(*                        PROPERTIES OF THE HISTORY                        *)
(***************************************************************************)

\* a stored entry that makes a new signal a duplicate at time t: the same
\* symbol and direction, a time within the trailing window, an entry price
\* within 1% of the new signal's
DuplicateOf(result, h, t) ==
    /\ h.symbol = result.symbol /\ h.direction = result.direction
    /\ t - window_hours <= h.time /\ h.time <= t
    /\ Abs(h.entry - result.entry) * 100 <= result.entry

\* C6: a save that nothing interferes with leaves the stored history
\* unchanged if and only if some stored entry makes the signal a duplicate;
\* otherwise the history grows by exactly the new signal's entry.
C6_DedupExact ==
    [][\A w \in Savers :
         (hpc[w] = "loaded" /\ hpc'[w] = "done" /\ hloc[w].history = history_file)
           => IF \E k \in DOMAIN history_file :
                   DuplicateOf(hloc[w].result, history_file[k], now)
              THEN history_file' = history_file
              ELSE history_file'
                     = Append(history_file, HistoryEntry(hloc[w].result, now))]_vars

\* C12: the stored history never holds more than 200 entries; a save that
\* nothing interferes with and that accepts its signal leaves the stored
\* entries followed by the new one, in that order, less the oldest ones
\* beyond 200; a rejected save changes nothing and a clear empties the file.
C12_BoundedRecent ==
    /\ [](Len(history_file) <= HistoryCap)
    /\ [][/\ \A w \in Savers :
              (hpc[w] = "loaded" /\ hpc'[w] = "done"
                                 /\ hloc[w].history = history_file)
                => IF _is_duplicate_signal(hloc[w].result, history_file, now)
                   THEN history_file' = history_file
                   ELSE LET all  == Append(history_file,
                                           HistoryEntry(hloc[w].result, now))
                            drop == IF Len(all) > HistoryCap
                                    THEN Len(all) - HistoryCap ELSE 0
                        IN  /\ Len(history_file') = Len(all) - drop
                            /\ \A k \in 1..Len(history_file') :
                                   history_file'[k] = all[k + drop]
          /\ (hpc[0] = "idle" /\ hpc'[0] = "done") => history_file' = <<>>]_vars

\* a full history took one more signal: the new entry is last and the
\* oldest entry is gone
C12_Witness ==
    /\ Len(history_0) = HistoryCap /\ Len(history_file) = HistoryCap
    /\ \E w \in Savers :
          /\ hpc[w] = "done"
          /\ history_file[HistoryCap]
                = HistoryEntry(hloc[w].result, hloc[w].wrote_at)
    /\ history_file[1] = history_0[2]

\* the writers that have finished, and the orders they can be put in
DoneWriters == {w \in {0} \cup Savers : hpc[w] = "done"}
WriterOrders ==
    {f \in [1..Cardinality(DoneWriters) -> DoneWriters] :
        \A a, b \in DOMAIN f : a # b => f[a] # f[b]}

\* what writer w does to history h when it runs alone
RunAlone(w, h) ==
    IF w = 0 THEN <<>>
    ELSE SaveSignal(hloc[w].result, h, hloc[w].wrote_at)

RECURSIVE RunInOrder(_, _)
RunInOrder(f, n) ==
    IF n = 0 THEN history_0 ELSE RunAlone(f[n], RunInOrder(f, n - 1))

\* C8: when no writer is in the middle of its save, the stored history is
\* what the finished saves and clears give in some sequential order.
C8_Serializable ==
    (\A w \in Savers : hpc[w] # "loaded")
        => \E f \in WriterOrders :
             history_file = RunInOrder(f, Cardinality(DoneWriters))

(***************************************************************************)
(*                        PROPERTIES OF THE BACKTEST                       *)
(***************************************************************************)

\* the candles strictly after the signal, by their place in the table
After(b) == {k \in DOMAIN b.df : b.df[k].ts > b.sig_ts}

StopTouched(signal, c) ==
    IF signal.direction = "LONG" THEN c.low <= signal.sl
    ELSE c.high >= signal.sl

TargetTouched(signal, c) ==
    IF signal.direction = "LONG" THEN c.high >= signal.tp1
    ELSE c.low <= signal.tp1

Touching(b) ==
    {k \in After(b) : StopTouched(b.signal, b.df[k])
                      \/ TargetTouched(b.signal, b.df[k])}

FirstTouching(b) == CHOOSE k \in Touching(b) : \A j \in Touching(b) : k <= j

\* x is the quotient num / den to the nearest unit
Nearest(x, num, den) == Abs(x * den - num) * 2 <= den

\* C7: with a valid time and a fetched, non-empty table, the first candle
\* after the signal that touches the stop or the target decides: the target
\* (alone or with the stop) gives WIN with R = tp1_pct / sl_pct, the stop
\* alone LOSS with R = -1.0, bt_candles is that candle's 1-based position
\* among the later candles; if none touches, the result is OPEN, without a
\* realised R, and the unrealised percentage comes from the latest close.
C7_ForwardWalk ==
    (bt_out.bt_result # None /\ bt_in.valid_time /\ bt_in.fetched
                             /\ Len(bt_in.df) > 0)
    => LET signal == bt_in.signal
       IN  IF Touching(bt_in) = {}
           THEN /\ bt_out.bt_result = "OPEN"
                /\ bt_out.bt_pnl_r = NoNum
                /\ bt_out.bt_unrealized_pct # NoNum
                /\ LET last == bt_in.df[Len(bt_in.df)].close
                       gain == IF signal.direction = "LONG"
                               THEN last - signal.entry
                               ELSE signal.entry - last
                   IN  Nearest(bt_out.bt_unrealized_pct[1], gain * 10000,
                               signal.entry)
           ELSE LET k == FirstTouching(bt_in)
                IN  /\ bt_out.bt_candles
                         = Some(Cardinality({j \in After(bt_in) : j <= k}))
                    /\ IF TargetTouched(signal, bt_in.df[k])
                       THEN /\ bt_out.bt_result = "WIN"
                            /\ bt_out.bt_pnl_r # NoNum
                            /\ Nearest(bt_out.bt_pnl_r[1],
                                       signal.tp1_pct * 100, signal.sl_pct)
                       ELSE /\ bt_out.bt_result = "LOSS"
                            /\ bt_out.bt_pnl_r = Some(0 - 100)

\* a signal issued after the first candle, a quiet second candle, and a
\* third that touches both the stop and the target: WIN at position 2
C7_Witness ==
    /\ bt_out.bt_result = "WIN"
    /\ bt_in.sig_ts = 1 /\ Len(bt_in.df) = 3
    /\ Touching(bt_in) = {3}
    /\ StopTouched(bt_in.signal, bt_in.df[3])
    /\ TargetTouched(bt_in.signal, bt_in.df[3])
    /\ bt_out.bt_candles = Some(2)

(***************************************************************************)
(*                        PROPERTIES OF THE REPLAY                         *)
(***************************************************************************)

\* the stored entries a request's two filters let through, in stored order
Selected(history, c) ==
    SelectSeq(history, LAMBDA h :
        /\ c.confidence \in {"ALL", h.confidence}
        /\ c.direction \in {"ALL", h.direction})

OutcomeFields == {"bt_result", "bt_candles", "bt_pnl_r", "bt_exit_price"}

\* C13: after a backtest the stored history is what it was, there is one
\* result per stored entry that passes the confidence and the direction
\* filter, and each result holds every field of its entry with the entry's
\* value, together with the outcome fields.
C13_ReplayCopies ==
    ret.done =>
        /\ history_file = history_0
        /\ LET sel == Selected(history_file, call)
           IN  /\ Len(ret.results) = Len(sel)
               /\ \A k \in 1..Len(sel) :
                     /\ DOMAIN sel[k] \subseteq DOMAIN ret.results[k]
                     /\ \A f \in DOMAIN sel[k] : ret.results[k][f] = sel[k][f]
                     /\ OutcomeFields \subseteq DOMAIN ret.results[k]

\* of two stored entries one passes the filters, and its backtest is a WIN
C13_Witness ==
    /\ ret.done
    /\ Len(history_file) = 2 /\ Len(ret.results) = 1
    /\ call.confidence = "HIGH" /\ call.direction = "ALL"
    /\ history_file[1].confidence = "MEDIUM"
    /\ ret.results[1].bt_result = "WIN"
    /\ ret.results[1].symbol = history_file[2].symbol

(***************************************************************************)
(*                        PROPERTIES OF THE READERS                        *)
(***************************************************************************)

ReadsHistory == call.fn \in {"get_history", "save_signal", "backtest"}
ReadsConfig  == call.fn \in {"startup", "get_config"}

\* C14: an operation that reads persisted state never fails on it: corrupt
\* config gives the default config, corrupt history an empty history, a
\* corrupt snapshot an empty snapshot.
C14_CorruptNeverFatal ==
    ret.done =>
        /\ ~ret.raised
        /\ (ReadsConfig /\ call.config = "corrupt") => ret.config = "DEFAULT"
        /\ (ReadsHistory /\ call.history = "corrupt") => ret.history = "EMPTY"
        /\ (call.fn = "startup" /\ call.snapshot = "corrupt")
               => ret.snapshot = "EMPTY"

(***************************************************************************)
(*                   PROPERTIES OF THE STRUCTURE CLASSIFIER                *)
(***************************************************************************)

\* the last n values of a list, or all of them when it has fewer
Tail_n(seq, n) ==
    LET k == IF Len(seq) < n THEN Len(seq) ELSE n
    IN  [i \in 1..k |-> seq[Len(seq) - k + i]]

Increasing(seq) == \A i, j \in DOMAIN seq : i < j => seq[i] < seq[j]
Decreasing(seq) == \A i, j \in DOMAIN seq : i < j => seq[i] > seq[j]

\* C15: on the last n highs and the last n lows, the answer is UPTREND
\* exactly when there are at least 2 of each and both rise strictly,
\* DOWNTREND exactly when there are at least 2 of each and both fall
\* strictly, and SIDEWAYS in every other case.
C15_StructureExact ==
    ret.done =>
        LET h      == Tail_n(call.highs, call.n)
            l      == Tail_n(call.lows, call.n)
            enough == Len(h) >= 2 /\ Len(l) >= 2
            up     == enough /\ Increasing(h) /\ Increasing(l)
            down   == enough /\ Decreasing(h) /\ Decreasing(l)
        IN  /\ (ret.value = "UPTREND") <=> up
            /\ (ret.value = "DOWNTREND") <=> down
            /\ (ret.value = "SIDEWAYS") <=> (~up /\ ~down)

\* four highs and four lows whose last three rise and whose first does not
\* fit: UPTREND on the last 3
C15_Witness ==
    /\ ret.done /\ ret.value = "UPTREND"
    /\ call.n = 3
    /\ call.highs = <<3, 1, 2, 3>>
    /\ call.lows = <<2, 1, 2, 3>>

(***************************************************************************)
(*                      PROPERTIES OF THE SCANNER LOOP                     *)
(***************************************************************************)

Alive == {t \in Loops : lpc[t] # "none"}

\* C21: at any time at most one dashboard_scanner_loop thread is alive,
\* whatever the interleaving of start requests, stop requests and the
\* automatic start.
C21_OneLoop == Cardinality(Alive) <= 1

(***************************************************************************)
(*                      PROPERTIES OF THE CANDLE FETCH                     *)
(***************************************************************************)

Fetched == call.fn = "fetch_klines" /\ ret # NoRet

\* C22: fetch_klines makes at most 3 requests; every request but the last was
\* answered 429 and was followed by a wait of 2^attempt seconds; a response
\* other than 429 ends the call at once, raising when it is an error; and
\* three 429 answers in a row make the call raise.
C22_BoundedRetry ==
    Fetched =>
        LET out == ret.out
            n   == out.requests
        IN  /\ 1 <= n /\ n <= 3
            /\ \A k \in 1..(n - 1) : call.resps[k] = "429"
            /\ \A k \in DOMAIN out.waits : out.waits[k] = Pow2(k - 1)
            /\ Len(out.waits) >= n - 1
            /\ call.resps[n] # "429"
                  => /\ Len(out.waits) = n - 1
                     /\ out.raised = (call.resps[n] # "200")
            /\ (\A k \in 1..3 : call.resps[k] = "429") => out.raised

\* a call answered 429, then 500: two requests, one wait of 1 s, raised
C22_Witness ==
    /\ Fetched
    /\ call.resps[1] = "429" /\ call.resps[2] = "500"
    /\ ret.out.requests = 2 /\ ret.out.raised

(***************************************************************************)
(*                      PROPERTIES OF THE PRICE LEVELS                     *)
(***************************************************************************)

Levelled == call.fn = "levels" /\ ret # NoRet

\* the stop band of each variant, in hundredths of a percent
Band(v) ==
    IF v = "SWING_H4" THEN <<100, 400>>
    ELSE IF v = "SWING_H1" THEN <<200, 300>>
    ELSE <<80, 150>>

\* C24: levels computed for a LONG (SHORT) bias have the stop below (above)
\* the entry, at a distance inside the variant's band: 1% to 4% for
\* fam_analyze, 2% to 3% for swing_h1_analyze, 0.8% to 1.5% for
\* scalp_analyze, whatever the structure level is.
C24_StopInBand ==
    (Levelled /\ ret.out.side # "NONE") =>
        LET out == ret.out
        IN  /\ out.side = "LONG" => out.sl < out.entry
            /\ out.side = "SHORT" => out.sl > out.entry
            /\ Band(call.variant)[1] <= out.sl_pct
            /\ out.sl_pct <= Band(call.variant)[2]

\* C25: the entry of the returned record is the latest close of the fastest
\* of the variant's three timeframes: 1h for fam_analyze, 15m for
\* swing_h1_analyze, 5m for scalp_analyze.
C25_EntryIsFastestClose ==
    Levelled =>
        ret.out.entry = LastClose(call.variant, call.closes,
                                  Timeframes(call.variant)[3])

\* C29: a returned LONG record has stop < entry < target 1 < target 2 and a
\* returned SHORT record has target 2 < target 1 < entry < stop, whichever
\* source target 1 and target 2 were taken from.
C29_LevelsOrdered ==
    Levelled =>
        LET out == ret.out
        IN  /\ out.direction = "LONG"
                 => out.sl < out.entry /\ out.entry < out.tp1 /\ out.tp1 < out.tp2
            /\ out.direction = "SHORT"
                 => out.tp2 < out.tp1 /\ out.tp1 < out.entry /\ out.entry < out.sl

\* a returned SHORT whose target 1 is a swing low and whose target 2 is the
\* 1.272 extension
C29_Witness ==
    /\ Levelled
    /\ ret.out.direction = "SHORT"
    /\ ret.out.tp1 \in {smart_round(h) : h \in call.swings}
    /\ ret.out.tp2 = smart_round(FibExt("SHORT", ret.out.price, call.rng, 1272))
    /\ ret.out.tp2 < ret.out.tp1

=============================================================================
